---- MODULE Spec2Model ----
(***************************************************************************)
(* State-machine model of retrowin32's Win32 shim layer:                   *)
(*   - kernel32::State (the mapping list: add_mapping, alloc) and the      *)
(*     kernel32 / user32 stdcall shims of win32/src/winapi.rs;             *)
(*   - the IDirectDraw7 / IDirectDrawSurface7 methods of                   *)
(*     win32/src/winapi/ddraw/ddraw7.rs.                                   *)
(* u32 values are modelled as naturals below 2^WordBits.  Arithmetic that  *)
(* leaves that range panics in a build with overflow checks and wraps in   *)
(* a build without them; overflow_checks records which build is running.   *)
(***************************************************************************)
EXTENDS Integers, Sequences, FiniteSets, TLC

VARIABLES
    overflow_checks, \* the build profile: TRUE = arithmetic overflow panics
    pc,              \* "guest" | "shim" | "ret" | "abort" | "exit"
    call,            \* the shim call in progress: [sym, args, esp0]
    stack,           \* guest stack, top first
    esp,             \* stack pointer register
    eax,             \* return register
    mem,             \* guest memory: address -> byte (absent = 0)
    host_written,    \* host.write's calls: the buffer given, the count returned
    host_exit,       \* the code host.exit was last given (<<>>: never called)
    image_base,      \* kernel32::State.image_base
    mappings,        \* kernel32::State.mappings
    allocated,       \* history: the addrs alloc has returned
    windows,         \* user32's window table: hwnd -> window record
    surfaces,        \* ddraw.surfaces: object address -> ddraw::Surface
    palettes,        \* ddraw.palettes: object address -> 256 PALETTEENTRYs
    palette_hack,    \* ddraw.palette_hack
    hwnd,            \* ddraw.hwnd
    dd_width,        \* ddraw.width
    dd_height,       \* ddraw.height
    heap,            \* ddraw.heap: [next, live, free]
    dcs,             \* gdi32.dcs: handle -> DC
    host_surfaces,   \* the host's surfaces: id -> how it was made
    host_log,        \* the host and heap calls of the shim call in progress
    frames           \* EnumDisplayModes calls waiting for their guest callback

vars == <<overflow_checks, pc, call, stack, esp, eax, mem, host_written, host_exit,
          image_base, mappings, allocated, windows, surfaces, palettes,
          palette_hack, hwnd, dd_width, dd_height, heap, dcs, host_surfaces,
          host_log, frames>>

\* the state no kernel32 operation touches
ddcore == <<windows, surfaces, palettes, palette_hack, hwnd, dd_width,
            dd_height, heap, dcs, host_surfaces>>
ddcore_but_heap == <<windows, surfaces, palettes, palette_hack, hwnd, dd_width,
                     dd_height, dcs, host_surfaces>>
rest == <<ddcore, host_log, frames>>
\* the state no ddraw operation touches
k32state == <<overflow_checks, host_written, host_exit, image_base, mappings,
              allocated>>

---------------------------------------------------------------------------
(* Bounds of the model *)

WordBits == 24
MemSize == 4096
MaxMappings == 4
MaxWrites == 1
HeapSize == 192
MaxSurfaces == 2
MaxPalettes == 1
MaxDCs == 1
MaxDepth == 1
MaxWindows == 2

(* Program constants *)

PAGE == 4096
NULL_POINTER_REGION_SIZE == 4096
\* 0xF11E_0100 as a 32-bit pattern (written as the signed value of the same
\* bits); it is only ever compared for equality.
STDOUT_HFILE == -249691904
MEM_COMMIT == 4096
PALETTE_ENTRIES == 256
ENUM_WIDTH == 320
ENUM_HEIGHT == 200
ENUM_BPP == 8
DD_OK == 0
\* 0x80004005 as a 32-bit pattern (the signed value of the same bits)
DDERR_GENERIC == -2147467259

---------------------------------------------------------------------------
(* u32 arithmetic *)

WordMod == 2^WordBits
Ovf(x) == x < 0 \/ x >= WordMod
Wrap(x) == x % WordMod
\* x & !(0x1000 - 1)
MaskPage(x) == x - (x % PAGE)

---------------------------------------------------------------------------
(* kernel32::State *)

Mapping(a, s, d) == [addr |-> a, size |-> s, desc |-> d]

NewMappings == << Mapping(0, NULL_POINTER_REGION_SIZE, "avoid null pointers") >>

InsertAt(s, pos, e) == SubSeq(s, 1, pos - 1) \o <<e>> \o SubSeq(s, pos, Len(s))

\* .position(|m| m.addr > mapping.addr).unwrap_or(len), as a 1-based index
PositionAfter(ms, addr) ==
    IF \E i \in 1..Len(ms) : ms[i].addr > addr
    THEN CHOOSE i \in 1..Len(ms) :
            /\ ms[i].addr > addr
            /\ \A j \in 1..(i - 1) : ~(ms[j].addr > addr)
    ELSE Len(ms) + 1

\* add_mapping: "panic" (a failed assert!, or an overflowing + in a build with
\* overflow checks) or the list with the mapping inserted at pos.
AddMappingResult(ms, m) ==
    LET pos     == PositionAfter(ms, m.addr)
        hasPrev == pos > 1
        hasNext == pos <= Len(ms)
        prevEnd == IF hasPrev THEN ms[pos - 1].addr + ms[pos - 1].size ELSE 0
        newEnd  == m.addr + m.size
    IN  IF hasPrev /\ overflow_checks /\ Ovf(prevEnd) THEN [kind |-> "panic"]
        ELSE IF hasPrev /\ ~(Wrap(prevEnd) <= m.addr) THEN [kind |-> "panic"]
        ELSE IF hasNext /\ overflow_checks /\ Ovf(newEnd) THEN [kind |-> "panic"]
        ELSE IF hasNext /\ ~(Wrap(newEnd) <= ms[pos].addr) THEN [kind |-> "panic"]
        ELSE [kind |-> "ok", pos |-> pos, list |-> InsertAt(ms, pos, m)]

\* mapping.addr + mapping.size + (0x1000 - 1) & !(0x1000 - 1)
\* ("+" binds tighter than "&"): the two sums, then the mask.
RoundedEnd(m) ==
    LET s1 == m.addr + m.size
        s2 == Wrap(s1) + (PAGE - 1)
    IN  [ovf |-> Ovf(s1) \/ Ovf(s2), val |-> MaskPage(Wrap(s2))]

\* The loop of alloc from index pos on, with the running value of end.
RECURSIVE AllocScan(_, _, _, _)
AllocScan(ms, size, pos, end) ==
    IF pos > Len(ms) THEN [kind |-> "panic"]
    ELSE LET m     == ms[pos]
             diff  == m.addr - end
             space == Wrap(diff)
             nxt   == RoundedEnd(m)
         IN  IF overflow_checks /\ Ovf(diff) THEN [kind |-> "panic"]
             ELSE IF space > size
                  THEN [kind |-> "ok", pos |-> pos, addr |-> end]
             ELSE IF overflow_checks /\ nxt.ovf THEN [kind |-> "panic"]
             ELSE AllocScan(ms, size, pos + 1, nxt.val)

\* alloc: "panic", or the new list and the mapping returned.
AllocResult(ms, size, desc) ==
    LET r == AllocScan(ms, size, 1, 0)
    IN  IF r.kind = "panic" THEN [kind |-> "panic"]
        ELSE [kind |-> "ok", pos |-> r.pos, addr |-> r.addr,
              list |-> InsertAt(ms, r.pos, Mapping(r.addr, size, desc))]

---------------------------------------------------------------------------
(* Guest memory (x86.mem / machine.memory): a byte array of MemSize bytes,  *)
(* kept as the function of its non-zero bytes.                              *)

InMem(a, n) == a >= 0 /\ n >= 0 /\ a + n <= MemSize
Rd8(m, a) == IF a \in DOMAIN m THEN m[a] ELSE 0
PutBytes(m, a, bs) ==
    LET new(x) == IF x >= a /\ x < a + Len(bs) THEN bs[x - a + 1] ELSE Rd8(m, x)
        dom    == {x \in DOMAIN m \cup (a..(a + Len(bs) - 1)) : new(x) # 0}
    IN  [x \in dom |-> new(x)]
\* &mem[a .. a + n]
Slice(m, a, n) == [i \in 1..n |-> Rd8(m, a + i - 1)]
\* little-endian u32
U32Bytes(v) == << v % 256, (v \div 256) % 256, (v \div 65536) % 256,
                  (v \div 16777216) % 256 >>
RdU32(m, a) == Rd8(m, a) + 256 * Rd8(m, a + 1) + 65536 * Rd8(m, a + 2)
               + 16777216 * Rd8(m, a + 3)
write_u32(m, a, v) == PutBytes(m, a, U32Bytes(v))

---------------------------------------------------------------------------
(* The interpreter's side of a stdcall: the guest pushes the arguments      *)
(* right to left, so that the first is on top, above the return address.    *)

NoCall == [sym |-> "none", args |-> <<>>, esp0 |-> 0]
\* what the guest program has set up: its data, its stack, the return address
Guest == [hello_addr |-> 8, written_addr |-> 16, ret_addr |-> 4198400,
          stack_top |-> 65536,
          out_ptr |-> 64, rect |-> 96, rect_rev |-> 112, desc_plain |-> 128, desc_primary |-> 256,
          desc_scratch |-> 384, desc_out |-> 512, pal_entries |-> 1024,
          ddraw_obj |-> 640, palette |-> 644, desc_big |-> 768, callback |-> 4198656, context |-> 119,
          bridge_ret |-> 4199168, hwnd |-> 1]

Push(st, ws) == ws \o st
\* the first n words of the stack, as n successive x86.pop() calls return them
Popped(st, n) == SubSeq(st, 1, n)
AfterPop(st, n) == SubSeq(st, n + 1, Len(st))

---------------------------------------------------------------------------
(* DirectDraw data: the Win32 layouts and flag bits the shims read and      *)
(* write, and where ddraw keeps its heap and its vtables.                   *)

DDSURFACEDESC2 ==
    [size |-> 128, dwSize |-> 0, dwFlags |-> 4, dwHeight |-> 8, dwWidth |-> 12,
     lPitch |-> 16, dwBackBufferCount |-> 20, lpSurface |-> 36,
     ddpfPixelFormat |-> 72, ddsCaps |-> 104]
DDPIXELFORMAT ==
    [size |-> 32, dwSize |-> 0, dwFlags |-> 4, dwFourCC |-> 8,
     dwRGBBitCount |-> 12, dwRBitMask |-> 16, dwGBitMask |-> 20,
     dwBBitMask |-> 24, dwRGBAlphaBitMask |-> 28]
RECT == [size |-> 16, left |-> 0, top |-> 4, right |-> 8, bottom |-> 12]
DDSD == [CAPS |-> 1, HEIGHT |-> 2, WIDTH |-> 4, BACKBUFFERCOUNT |-> 32,
         LPSURFACE |-> 2048]
DDSCAPS == [PRIMARYSURFACE |-> 512]
DDPCAPS == [BIT8 |-> 4, all |-> 2047]
DDraw == [heap_base |-> 2048, vtable_IDirectDrawSurface7 |-> 4195328,
          vtable_IDirectDrawPalette |-> 4195584]

\* flags.contains(bit), bit a power of two
Contains(flags, bit) == (flags \div bit) % 2 = 1
\* flags.remove(bit)
Remove(flags, bit) == IF Contains(flags, bit) THEN flags - bit ELSE flags

\* a * b in u32
Mul32(a, b) == [ovf |-> Ovf(a * b), val |-> Wrap(a * b)]

RECURSIVE PutAll(_, _)
PutAll(m, ws) ==
    IF ws = <<>> THEN m
    ELSE PutAll(PutBytes(m, ws[1][1], ws[1][2]), Tail(ws))
\* mem.put::<u32> of several fields
PutU32s(m, ws) == PutAll(m, [i \in 1..Len(ws) |-> <<ws[i][1], U32Bytes(ws[i][2])>>])

\* what the guest program has in memory when it starts
GuestImage ==
    LET d == DDSURFACEDESC2
        A == Guest.desc_plain
        B == Guest.desc_primary
        C == Guest.desc_scratch
        D == Guest.desc_big
        P == Guest.pal_entries
    IN  PutAll(
          PutU32s(<<>>, <<
            <<A + d.dwSize, d.size>>, <<A + d.dwFlags, DDSD.WIDTH + DDSD.HEIGHT>>,
            <<A + d.dwHeight, 1>>, <<A + d.dwWidth, 4>>,
            <<B + d.dwSize, d.size>>,
            <<B + d.dwFlags, DDSD.CAPS + DDSD.WIDTH + DDSD.HEIGHT>>,
            <<B + d.dwHeight, 2>>, <<B + d.dwWidth, 2>>,
            <<B + d.ddsCaps, DDSCAPS.PRIMARYSURFACE>>,
            <<C + d.dwSize, d.size>>, <<C + d.dwFlags, DDSD.WIDTH>>,
            <<C + d.dwWidth, 2>>,
            <<D + d.dwSize, d.size>>, <<D + d.dwFlags, DDSD.WIDTH + DDSD.HEIGHT>>,
            <<D + d.dwHeight, 4096>>, <<D + d.dwWidth, 4096>>,
            <<Guest.rect + RECT.right, 8>>, <<Guest.rect + RECT.bottom, 8>>,
            <<Guest.rect_rev + RECT.left, 8>>, <<Guest.rect_rev + RECT.top, 8>> >>),
          << <<Guest.hello_addr, <<104, 101, 108, 108, 111>> >>,
             <<P + 4 * 7, <<10, 20, 30, 0>> >>,
             <<P + 4 * 9, <<1, 2, 3, 5>> >> >>)

---------------------------------------------------------------------------
(* ddraw.heap: a bump allocator with a free list inside one mapping;        *)
(* addresses are 4-byte aligned and alloc does not touch the memory.        *)

NewHeap == [next |-> DDraw.heap_base, live |-> {}, free |-> {}]
RoundUp4(n) == ((n + 3) \div 4) * 4
HeapAlloc(h, n) ==
    LET r    == RoundUp4(IF n = 0 THEN 1 ELSE n)
        fits == {b \in h.free : b.size >= r}
    IN  IF fits # {}
        THEN LET b == CHOOSE b \in fits : \A c \in fits : b.addr <= c.addr
             IN  [kind |-> "ok", addr |-> b.addr,
                  heap |-> [h EXCEPT !.live = @ \cup {b}, !.free = @ \ {b}]]
        ELSE IF h.next + r <= DDraw.heap_base + HeapSize
        THEN [kind |-> "ok", addr |-> h.next,
              heap |-> [h EXCEPT !.next = @ + r,
                                 !.live = @ \cup {[addr |-> h.next, size |-> r]}]]
        ELSE [kind |-> "panic"]
HeapFree(h, addr) ==
    LET bs == {b \in h.live : b.addr = addr}
    IN  [h EXCEPT !.live = @ \ bs, !.free = @ \cup bs]

---------------------------------------------------------------------------
(* Inputs *)

TopPage == WordMod - PAGE
HelloAddr == Guest.hello_addr
Hello == <<104, 101, 108, 108, 111>>
WrittenAddr == Guest.written_addr

\* mappings the loader registers through add_mapping
LoaderMappings ==
    { Mapping(a, s, "loader") : a \in {0, 4096, 6144, 6400, 8192, 16384, TopPage,
                                       TopPage + 2048},
                                s \in {0, 256, 4096, 8192} }
AllocSizes == {0, 2048, 4096, 8192, WordMod - 2 * PAGE}

Init ==
    /\ overflow_checks \in BOOLEAN
    /\ pc = "guest"
    /\ call = NoCall
    /\ stack = <<>>
    /\ esp = Guest.stack_top
    /\ eax = 0
    /\ mem = GuestImage
    /\ host_written = <<>>
    /\ host_exit = <<>>
    /\ image_base = 0
    /\ mappings = NewMappings
    /\ allocated = {}
    /\ windows = <<>>
    /\ surfaces = <<>>
    /\ palettes = <<>>
    /\ palette_hack = 0
    /\ hwnd = 0
    /\ dd_width = 0
    /\ dd_height = 0
    /\ heap = NewHeap
    /\ dcs = <<>>
    /\ host_surfaces = <<>>
    /\ host_log = <<>>
    /\ frames = <<>>

---------------------------------------------------------------------------
(* Direct calls of kernel32::State (the loader's) *)

add_mapping(m) ==
    /\ pc = "guest"
    /\ Len(mappings) < MaxMappings
    /\ LET r == AddMappingResult(mappings, m)
       IN  IF r.kind = "panic"
           THEN /\ pc' = "abort"
                /\ UNCHANGED mappings
           ELSE /\ mappings' = r.list
                /\ UNCHANGED pc
    /\ UNCHANGED <<overflow_checks, call, stack, esp, eax, mem, host_written,
                   host_exit, image_base, allocated, rest>>

alloc(size) ==
    /\ pc = "guest"
    /\ Len(mappings) < MaxMappings
    /\ LET r == AllocResult(mappings, size, "alloc")
       IN  IF r.kind = "panic"
           THEN /\ pc' = "abort"
                /\ UNCHANGED <<mappings, allocated>>
           ELSE /\ mappings' = r.list
                /\ allocated' = allocated \cup {r.addr}
                /\ UNCHANGED pc
    /\ UNCHANGED <<overflow_checks, call, stack, esp, eax, mem, host_written,
                   host_exit, image_base, rest>>

\* The loader records where it placed the image.
LoadImage(base) ==
    /\ pc = "guest"
    /\ image_base = 0
    /\ image_base' = base
    /\ UNCHANGED <<overflow_checks, pc, call, stack, esp, eax, mem, host_written,
                   host_exit, mappings, allocated, rest>>

---------------------------------------------------------------------------
(* resolve(): the symbols that have a shim *)

Symbols == { "kernel32.dll!ExitProcess", "kernel32.dll!GetModuleHandleA",
             "kernel32.dll!WriteFile", "kernel32.dll!VirtualAlloc",
             "user32.dll!RegisterClassA", "user32.dll!CreateWindowExA",
             "user32.dll!UpdateWindow" }

\* The argument lists guest code calls each symbol with, first argument first.
GuestArgs(sym) ==
    CASE sym = "kernel32.dll!ExitProcess" -> { <<c>> : c \in {0, 3} }
      [] sym = "kernel32.dll!GetModuleHandleA" -> { <<n>> : n \in {0, 8192} }
      [] sym = "kernel32.dll!WriteFile" ->
            { <<STDOUT_HFILE, HelloAddr, 5, w, 0>> : w \in {WrittenAddr, HelloAddr} }
            \cup { <<7, HelloAddr, 5, WrittenAddr, 0>>,
                   <<STDOUT_HFILE, HelloAddr, 5, WrittenAddr, 1>>,
                   <<STDOUT_HFILE, MemSize - 2, 5, WrittenAddr, 0>>,
                   <<STDOUT_HFILE, HelloAddr, 5, MemSize - 2, 0>>,
                   <<STDOUT_HFILE, WordMod - 2, 5, WrittenAddr, 0>> }
      [] sym = "kernel32.dll!VirtualAlloc" ->
            { <<0, s, MEM_COMMIT, p>> : s \in {8192, 2048}, p \in {0, 4} }
            \cup { <<4096, 8192, MEM_COMMIT, 0>>, <<0, 8192, 8192, 0>> }
      [] sym = "user32.dll!RegisterClassA" -> { <<32>> }
      [] sym = "user32.dll!CreateWindowExA" ->
            { <<0, 32, 40, s, 0, 0, 320, 200, 0, 0, 0, 0>> : s \in {0, 1} }
      [] sym = "user32.dll!UpdateWindow" -> { <<h>> : h \in {0, 1} }

\* Guest code calls an import: arguments and return address are on the stack
\* when the shim is entered.
Call(sym, args) ==
    /\ pc = "guest"
    /\ sym = "kernel32.dll!WriteFile" => Len(host_written) < MaxWrites
    /\ sym = "kernel32.dll!VirtualAlloc" => Len(mappings) < MaxMappings
    /\ sym \in {"IDirectDraw7::CreateSurface",
                "IDirectDrawSurface7::GetAttachedSurface"}
          => Cardinality(DOMAIN surfaces) < MaxSurfaces
    /\ sym = "IDirectDraw7::CreatePalette"
          => Cardinality(DOMAIN palettes) < MaxPalettes
    /\ sym = "IDirectDrawSurface7::GetDC" => Len(dcs) < MaxDCs
    /\ sym = "IDirectDraw7::EnumDisplayModes" => Len(frames) < MaxDepth
    /\ stack' = Push(stack, args \o <<Guest.ret_addr>>)
    /\ esp' = esp - 4 * (Len(args) + 1)
    /\ call' = [sym |-> sym, args |-> args, esp0 |-> esp']
    /\ pc' = "shim"
    \* a call made by a guest callback that a shim is waiting for
    /\ frames' = IF frames = <<>> THEN frames
                 ELSE [frames EXCEPT ![1].reentered = TRUE]
    /\ UNCHANGED <<overflow_checks, eax, host_written, host_exit,
                   image_base, mappings, allocated, ddcore, host_log>>

\* The interpreter's return: it pops the return address.  host_log, the
\* host calls of the shim that returns, is forgotten here.
Ret ==
    /\ pc = "ret"
    /\ stack' = AfterPop(stack, 1)
    /\ esp' = esp + 4
    /\ call' = NoCall
    /\ pc' = "guest"
    /\ host_log' = <<>>
    /\ UNCHANGED <<overflow_checks, eax, mem, host_written, host_exit,
                   image_base, mappings, allocated, ddcore, frames>>

\* What every shim does first: n pops.
Pops(n) ==
    /\ stack' = AfterPop(stack, n)
    /\ esp' = esp + 4 * n

\* (mutant) a failed assert! lets the shim return
Panic_returns == pc' = "ret"
\* a failed assert!, unwrap() or index: the process aborts
Panic == pc' = "abort"

InShim(sym) == pc = "shim" /\ call.sym = sym

---------------------------------------------------------------------------
(* kernel32 shims *)

\* host.exit is the host's: it may or may not come back.
ExitProcess ==
    /\ pc = "shim" /\ call.sym = "kernel32.dll!ExitProcess"
    /\ LET uExitCode == Popped(stack, 1)[1]
       IN  /\ Pops(1)
           /\ host_exit' = <<uExitCode>>
           /\ pc' \in {"exit", "ret"}
    /\ UNCHANGED <<overflow_checks, call, eax, mem, host_written, image_base,
                   mappings, allocated, rest>>

GetModuleHandleA ==
    /\ pc = "shim" /\ call.sym = "kernel32.dll!GetModuleHandleA"
    /\ Pops(1)
    /\ eax' = image_base
    /\ pc' = "ret"
    /\ UNCHANGED <<overflow_checks, call, mem, host_written, host_exit,
                   image_base, mappings, allocated, rest>>

\* (mutant) the slice stops one byte early
WriteFileSlice_short(lpBuffer, n) ==
    LET sum == lpBuffer + n
        end == Wrap(sum)
    IN  IF overflow_checks /\ Ovf(sum) THEN [kind |-> "panic"]
        ELSE IF lpBuffer > end \/ end > MemSize THEN [kind |-> "panic"]
        ELSE [kind |-> "ok", buf |-> Slice(mem, lpBuffer, end - lpBuffer - 1)]

\* &x86.mem[lpBuffer as usize..(lpBuffer + nNumberOfBytesToWrite) as usize]:
\* the sum may overflow; the slice panics when its end is before its start or
\* past the end of memory.
WriteFileSlice(lpBuffer, n) ==
    LET sum == lpBuffer + n
        end == Wrap(sum)
    IN  IF overflow_checks /\ Ovf(sum) THEN [kind |-> "panic"]
        ELSE IF lpBuffer > end \/ end > MemSize THEN [kind |-> "panic"]
        ELSE [kind |-> "ok", buf |-> Slice(mem, lpBuffer, end - lpBuffer)]

WriteFile ==
    /\ pc = "shim" /\ call.sym = "kernel32.dll!WriteFile"
    /\ LET a == Popped(stack, 5)
           hFile == a[1]
           lpBuffer == a[2]
           nNumberOfBytesToWrite == a[3]
           lpNumberOfBytesWritten == a[4]
           lpOverlapped == a[5]
           sl == WriteFileSlice(lpBuffer, nNumberOfBytesToWrite)
       IN  /\ Pops(5)
           /\ IF hFile # STDOUT_HFILE \/ lpOverlapped # 0 \/ sl.kind = "panic"
              THEN /\ Panic
                   /\ UNCHANGED <<host_written, mem, eax>>
              ELSE \* the host says how many bytes it wrote
                   \E n \in {Len(sl.buf), Len(sl.buf) \div 2} :
                      /\ host_written' = Append(host_written, [buf |-> sl.buf, n |-> n])
                      /\ IF InMem(lpNumberOfBytesWritten, 4)
                         THEN /\ mem' = write_u32(mem, lpNumberOfBytesWritten, n)
                              /\ eax' = 1
                              /\ pc' = "ret"
                         ELSE /\ Panic
                              /\ UNCHANGED <<mem, eax>>
    /\ UNCHANGED <<overflow_checks, call, host_exit, image_base, mappings,
                   allocated, rest>>

VirtualAlloc ==
    /\ pc = "shim" /\ call.sym = "kernel32.dll!VirtualAlloc"
    /\ LET a == Popped(stack, 4)
           lpAddress == a[1]
           dwSize == a[2]
           flAllocationType == a[3]
           r == AllocResult(mappings, dwSize, "VirtualAlloc")
       IN  /\ Pops(4)
           /\ IF lpAddress # 0 \/ flAllocationType # MEM_COMMIT \/ r.kind = "panic"
              THEN /\ Panic
                   /\ UNCHANGED <<mappings, allocated, eax>>
              ELSE /\ mappings' = r.list
                   /\ allocated' = allocated \cup {r.addr}
                   /\ eax' = r.addr
                   /\ pc' = "ret"
    /\ UNCHANGED <<overflow_checks, call, mem, host_written, host_exit,
                   image_base, rest>>

---------------------------------------------------------------------------
(* user32 shims *)

RegisterClassA ==
    /\ pc = "shim" /\ call.sym = "user32.dll!RegisterClassA"
    /\ Pops(1)
    /\ pc' = "ret"
    /\ UNCHANGED <<overflow_checks, call, eax, mem, host_written, host_exit,
                   image_base, mappings, allocated, rest>>

\* (mutant) lpParam is left on the stack
CreateWindowExA_11pops ==
    /\ pc = "shim" /\ call.sym = "user32.dll!CreateWindowExA"
    /\ Pops(11)
    /\ pc' = "ret"
    /\ UNCHANGED <<overflow_checks, call, eax, mem, host_written, host_exit,
                   image_base, mappings, allocated, rest>>

CreateWindowExA ==
    /\ pc = "shim" /\ call.sym = "user32.dll!CreateWindowExA"
    /\ Pops(12)
    /\ pc' = "ret"
    /\ UNCHANGED <<overflow_checks, call, eax, mem, host_written, host_exit,
                   image_base, mappings, allocated, rest>>

UpdateWindow ==
    /\ pc = "shim" /\ call.sym = "user32.dll!UpdateWindow"
    /\ Pops(1)
    /\ pc' = "ret"
    /\ UNCHANGED <<overflow_checks, call, eax, mem, host_written, host_exit,
                   image_base, mappings, allocated, rest>>

---------------------------------------------------------------------------
(* ddraw: IDirectDraw7 *)

\* Result<flags, u32>: Ok when value has no bit outside all
FromBits(value, all) == value \div (all + 1) = 0

\* surfaces.insert / palettes.insert
Insert(map, k, v) == (k :> v) @@ map

\* (mutant) the object gets the palette interface's vtable
IDirectDrawSurface7_new_palette(h, m) ==
    LET r == HeapAlloc(h, 4)
    IN  IF r.kind = "panic" THEN r
        ELSE [kind |-> "ok", addr |-> r.addr, heap |-> r.heap,
              mem |-> write_u32(m, r.addr, DDraw.vtable_IDirectDrawPalette)]

\* (mutant) every object is placed at the start of the heap
IDirectDrawSurface7_new_same(h, m) ==
    [kind |-> "ok", addr |-> DDraw.heap_base, heap |-> h,
     mem |-> write_u32(m, DDraw.heap_base, DDraw.vtable_IDirectDrawSurface7)]

\* IDirectDrawSurface7::new: 4 heap bytes that hold the vtable's address
IDirectDrawSurface7_new(h, m) ==
    LET r == HeapAlloc(h, 4)
    IN  IF r.kind = "panic" THEN r
        ELSE [kind |-> "ok", addr |-> r.addr, heap |-> r.heap,
              mem |-> write_u32(m, r.addr, DDraw.vtable_IDirectDrawSurface7)]

IDirectDrawPalette_new(h, m) ==
    LET r == HeapAlloc(h, 4)
    IN  IF r.kind = "panic" THEN r
        ELSE [kind |-> "ok", addr |-> r.addr, heap |-> r.heap,
              mem |-> write_u32(m, r.addr, DDraw.vtable_IDirectDrawPalette)]

IDirectDraw7_Release ==
    /\ InShim("IDirectDraw7::Release")
    /\ Pops(1)
    /\ eax' = 0
    /\ pc' = "ret"
    /\ UNCHANGED <<k32state, call, mem, rest>>

\* view_n::<PALETTEENTRY>(entries, 256).to_vec(): the copied bytes, kept as
\* the function of the non-zero ones; entry i is the 4 bytes from 4 * i
PaletteEntries(m, entries) ==
    LET n == 4 * PALETTE_ENTRIES
    IN  [x \in {y \in 0..(n - 1) : Rd8(m, entries + y) # 0} |-> Rd8(m, entries + x)]
PALETTEENTRY(palette, i) ==
    [peRed |-> Rd8(palette, 4 * i), peGreen |-> Rd8(palette, 4 * i + 1),
     peBlue |-> Rd8(palette, 4 * i + 2), peFlags |-> Rd8(palette, 4 * i + 3)]

CreatePalette ==
    /\ InShim("IDirectDraw7::CreatePalette")
    /\ LET a == Popped(stack, 5)
           flags == a[2]
           entries == a[3]
           lplpPalette == a[4]
           palette == IDirectDrawPalette_new(heap, mem)
       IN  /\ Pops(5)
           /\ IF \/ ~FromBits(flags, DDPCAPS.all)
                 \/ ~Contains(flags, DDPCAPS.BIT8)
                 \/ palette.kind = "panic"
                 \/ ~InMem(entries, 4 * PALETTE_ENTRIES)
                 \/ ~InMem(lplpPalette, 4)
              THEN /\ Panic
                   /\ UNCHANGED <<eax, mem, heap, palettes>>
              ELSE /\ heap' = palette.heap
                   /\ palettes' = Insert(palettes, palette.addr,
                                         PaletteEntries(palette.mem, entries))
                   /\ mem' = write_u32(palette.mem, lplpPalette, palette.addr)
                   /\ eax' = DD_OK
                   /\ pc' = "ret"
    /\ UNCHANGED <<k32state, call, windows, surfaces, palette_hack, hwnd, dd_width,
                   dd_height, dcs, host_surfaces, host_log, frames>>

\* (mutant) a primary surface takes its size from the desc
SurfaceOptions_desc(m, lpDesc) ==
    LET d     == DDSURFACEDESC2
        flags == RdU32(m, lpDesc + d.dwFlags)
        caps  == Contains(flags, DDSD.CAPS)
        prim  == caps /\ Contains(RdU32(m, lpDesc + d.ddsCaps), DDSCAPS.PRIMARYSURFACE)
    IN  [width  |-> IF Contains(flags, DDSD.WIDTH)
                    THEN RdU32(m, lpDesc + d.dwWidth) ELSE 0,
         height |-> IF Contains(flags, DDSD.HEIGHT)
                    THEN RdU32(m, lpDesc + d.dwHeight) ELSE 0,
         primary |-> prim]

\* the SurfaceOptions CreateSurface builds from the desc at lpDesc;
\* desc.caps() is Some when dwFlags has CAPS
SurfaceOptions(m, lpDesc) ==
    LET d     == DDSURFACEDESC2
        flags == RdU32(m, lpDesc + d.dwFlags)
        caps  == Contains(flags, DDSD.CAPS)
        prim  == caps /\ Contains(RdU32(m, lpDesc + d.ddsCaps), DDSCAPS.PRIMARYSURFACE)
    IN  IF prim
        THEN [width |-> dd_width, height |-> dd_height, primary |-> TRUE]
        ELSE [width  |-> IF Contains(flags, DDSD.WIDTH)
                         THEN RdU32(m, lpDesc + d.dwWidth) ELSE 0,
              height |-> IF Contains(flags, DDSD.HEIGHT)
                         THEN RdU32(m, lpDesc + d.dwHeight) ELSE 0,
              primary |-> FALSE]

CreateSurface ==
    /\ InShim("IDirectDraw7::CreateSurface")
    /\ LET a == Popped(stack, 4)
           desc == a[2]
           lpDirectDrawSurface7 == a[3]
           opts == SurfaceOptions(mem, desc)
           \* host.create_surface(&opts): the host's next surface
           surface == Len(host_surfaces) + 1
           x86_surface == IDirectDrawSurface7_new(heap, mem)
       IN  /\ Pops(4)
           /\ IF \/ desc = 0 \/ ~InMem(desc, DDSURFACEDESC2.size)
                 \/ RdU32(mem, desc + DDSURFACEDESC2.dwSize) # DDSURFACEDESC2.size
                 \/ lpDirectDrawSurface7 = 0 \/ ~InMem(lpDirectDrawSurface7, 4)
                 \/ x86_surface.kind = "panic"
              THEN /\ Panic
                   /\ UNCHANGED <<eax, mem, heap, surfaces, host_surfaces, host_log>>
              ELSE /\ host_surfaces' = Append(host_surfaces,
                          [kind |-> "created", opts |-> opts])
                   /\ host_log' = Append(host_log,
                          [op |-> "create_surface", opts |-> opts, host |-> surface])
                   /\ heap' = x86_surface.heap
                   /\ mem' = write_u32(x86_surface.mem, lpDirectDrawSurface7,
                                       x86_surface.addr)
                   /\ surfaces' = Insert(surfaces, x86_surface.addr,
                          [host |-> surface, width |-> opts.width,
                           height |-> opts.height, palette |-> 0, pixels |-> 0])
                   /\ eax' = DD_OK
                   /\ pc' = "ret"
    /\ UNCHANGED <<k32state, call, windows, palettes, palette_hack, hwnd, dd_width,
                   dd_height, dcs, frames>>

\* (mutant) the scratch desc with width and height swapped
EnumDesc_swapped(m, desc_addr) ==
    LET d == DDSURFACEDESC2
        f == DDPIXELFORMAT
        p == desc_addr + d.ddpfPixelFormat
    IN  PutAll(PutBytes(m, desc_addr, [i \in 1..d.size |-> 0]),
               << <<desc_addr + d.dwSize, U32Bytes(d.size)>>,
                  <<desc_addr + d.dwWidth, U32Bytes(ENUM_HEIGHT)>>,
                  <<desc_addr + d.dwHeight, U32Bytes(ENUM_WIDTH)>>,
                  <<p + f.dwSize, U32Bytes(f.size)>>,
                  <<p + f.dwRGBBitCount, U32Bytes(ENUM_BPP)>>,
                  <<p + f.dwRBitMask, <<0, 0, 0, 255>> >>,
                  <<p + f.dwGBitMask, <<0, 0, 255, 0>> >>,
                  <<p + f.dwBBitMask, <<0, 255, 0, 0>> >>,
                  <<p + f.dwRGBAlphaBitMask, <<255, 0, 0, 0>> >> >>)

\* clear_struct and the fields EnumDisplayModes sets; the masks 0xFF000000,
\* 0x00FF0000, 0x0000FF00, 0x000000FF as their little-endian bytes
EnumDesc(m, desc_addr) ==
    LET d == DDSURFACEDESC2
        f == DDPIXELFORMAT
        p == desc_addr + d.ddpfPixelFormat
    IN  PutAll(PutBytes(m, desc_addr, [i \in 1..d.size |-> 0]),
               << <<desc_addr + d.dwSize, U32Bytes(d.size)>>,
                  <<desc_addr + d.dwWidth, U32Bytes(ENUM_WIDTH)>>,
                  <<desc_addr + d.dwHeight, U32Bytes(ENUM_HEIGHT)>>,
                  <<p + f.dwSize, U32Bytes(f.size)>>,
                  <<p + f.dwRGBBitCount, U32Bytes(ENUM_BPP)>>,
                  <<p + f.dwRBitMask, <<0, 0, 0, 255>> >>,
                  <<p + f.dwGBitMask, <<0, 0, 255, 0>> >>,
                  <<p + f.dwBBitMask, <<0, 255, 0, 0>> >>,
                  <<p + f.dwRGBAlphaBitMask, <<255, 0, 0, 0>> >> >>)

\* EnumDisplayModes up to its await: the scratch desc is published and
\* call_x86 starts the guest callback, its arguments and the bridge's return
\* address on the stack.
EnumDisplayModes ==
    /\ InShim("IDirectDraw7::EnumDisplayModes")
    /\ LET a == Popped(stack, 5)
           lpSurfaceDesc == a[3]
           lpContext == a[4]
           lpEnumCallback == a[5]
           r == HeapAlloc(heap, DDSURFACEDESC2.size)
       IN  IF lpSurfaceDesc # 0 \/ r.kind = "panic"
           THEN /\ Pops(5)
                /\ Panic
                /\ UNCHANGED <<call, mem, heap, frames>>
           ELSE /\ heap' = r.heap
                /\ mem' = EnumDesc(mem, r.addr)
                /\ frames' = << [call |-> call, desc_addr |-> r.addr,
                                 eip |-> lpEnumCallback,
                                 args |-> <<r.addr, lpContext>>,
                                 live0 |-> heap.live, reentered |-> FALSE] >>
                             \o frames
                /\ stack' = Push(AfterPop(stack, 5),
                                 <<Guest.bridge_ret, r.addr, lpContext>>)
                /\ esp' = esp + 4 * 5 - 4 * 3
                /\ call' = NoCall
                /\ pc' = "guest"
    /\ UNCHANGED <<k32state, eax, ddcore_but_heap, host_log>>

\* the guest callback returns to the bridge: EnumDisplayModes resumes
EnumDisplayModes_resume ==
    /\ pc = "guest" /\ frames # <<>>
    /\ heap' = HeapFree(heap, frames[1].desc_addr)
    /\ stack' = AfterPop(stack, 3)
    /\ esp' = esp + 4 * 3
    /\ call' = frames[1].call
    /\ frames' = Tail(frames)
    /\ eax' = DD_OK
    /\ pc' = "ret"
    /\ UNCHANGED <<k32state, mem, ddcore_but_heap, host_log>>

\* (mutant) the hwnd is not recorded
SetCooperativeLevel_forgets ==
    /\ InShim("IDirectDraw7::SetCooperativeLevel")
    /\ Pops(3)
    /\ eax' = DD_OK
    /\ pc' = "ret"
    /\ UNCHANGED <<k32state, call, mem, ddcore, host_log, frames>>

SetCooperativeLevel ==
    /\ InShim("IDirectDraw7::SetCooperativeLevel")
    /\ Pops(3)
    /\ hwnd' = Popped(stack, 3)[2]
    /\ eax' = DD_OK
    /\ pc' = "ret"
    /\ UNCHANGED <<k32state, call, mem, windows, surfaces, palettes, palette_hack,
                   dd_width, dd_height, heap, dcs, host_surfaces, host_log, frames>>

\* user32.get_window(hwnd) of a handle that is no window fails
SetDisplayMode ==
    /\ InShim("IDirectDraw7::SetDisplayMode")
    /\ LET a == Popped(stack, 6)
           width == a[2]
           height == a[3]
       IN  /\ Pops(6)
           /\ IF hwnd # 0 /\ hwnd \notin DOMAIN windows
              THEN /\ Panic
                   /\ UNCHANGED <<eax, dd_width, dd_height, windows, host_log>>
              ELSE /\ dd_width' = width
                   /\ dd_height' = height
                   /\ IF hwnd # 0
                      THEN /\ windows' = [windows EXCEPT ![hwnd] =
                                            [width |-> width, height |-> height]]
                           /\ host_log' = Append(host_log,
                                  [op |-> "set_size", hwnd |-> hwnd,
                                   width |-> width, height |-> height])
                      ELSE UNCHANGED <<windows, host_log>>
                   /\ eax' = DD_OK
                   /\ pc' = "ret"
    /\ UNCHANGED <<k32state, call, mem, surfaces, palettes, palette_hack, hwnd,
                   heap, dcs, host_surfaces, frames>>

\* user32 has created a window for the guest: the next handle of its window
\* table, with a host window of no size yet.
NewWindow ==
    /\ pc = "guest"
    /\ Len(windows) < MaxWindows
    /\ windows' = Append(windows, [width |-> 0, height |-> 0])
    /\ UNCHANGED <<k32state, pc, call, stack, esp, eax, mem, surfaces, palettes,
                   palette_hack, hwnd, dd_width, dd_height, heap, dcs,
                   host_surfaces, host_log, frames>>

---------------------------------------------------------------------------
(* ddraw: IDirectDrawSurface7 *)

\* (mutant) Release destroys the surface record
IDirectDrawSurface7_Release_destroys ==
    /\ InShim("IDirectDrawSurface7::Release")
    /\ Pops(1)
    /\ surfaces' = [s \in DOMAIN surfaces \ {Popped(stack, 1)[1]} |-> surfaces[s]]
    /\ eax' = 0
    /\ pc' = "ret"
    /\ UNCHANGED <<k32state, call, mem, windows, palettes, palette_hack, hwnd,
                   dd_width, dd_height, heap, dcs, host_surfaces, host_log, frames>>

IDirectDrawSurface7_Release ==
    /\ InShim("IDirectDrawSurface7::Release")
    /\ Pops(1)
    /\ eax' = 0
    /\ pc' = "ret"
    /\ UNCHANGED <<k32state, call, mem, rest>>

Sub32_reversed(a, b) == [ovf |-> Ovf(b - a), val |-> Wrap(b - a)]
\* a - b in u32
Sub32(a, b) == [ovf |-> Ovf(a - b), val |-> Wrap(a - b)]

BltFast ==
    /\ InShim("IDirectDrawSurface7::BltFast")
    /\ LET a == Popped(stack, 6)
           this == a[1]
           x == a[2]
           y == a[3]
           lpSurf == a[4]
           lpRect == a[5]
           sx == RdU32(mem, lpRect + RECT.left)
           sy == RdU32(mem, lpRect + RECT.top)
           w == Sub32(RdU32(mem, lpRect + RECT.right), sx)
           h == Sub32(RdU32(mem, lpRect + RECT.bottom), sy)
       IN  /\ Pops(6)
           /\ IF \/ this \notin DOMAIN surfaces \/ lpSurf \notin DOMAIN surfaces
                 \/ this = lpSurf
                 \/ lpRect = 0 \/ ~InMem(lpRect, RECT.size)
                 \/ (overflow_checks /\ (w.ovf \/ h.ovf))
              THEN /\ Panic
                   /\ UNCHANGED <<eax, host_log>>
              ELSE /\ host_log' = Append(host_log,
                          [op |-> "bit_blt", host |-> surfaces[this].host,
                           x |-> x, y |-> y, src |-> surfaces[lpSurf].host,
                           sx |-> sx, sy |-> sy, w |-> w.val, h |-> h.val])
                   /\ eax' = DD_OK
                   /\ pc' = "ret"
    /\ UNCHANGED <<k32state, call, mem, ddcore, frames>>

Flip ==
    /\ InShim("IDirectDrawSurface7::Flip")
    /\ LET this == Popped(stack, 3)[1]
       IN  /\ Pops(3)
           /\ IF this \notin DOMAIN surfaces
              THEN /\ Panic
                   /\ UNCHANGED <<eax, host_log>>
              ELSE /\ host_log' = Append(host_log,
                          [op |-> "flip", host |-> surfaces[this].host])
                   /\ eax' = DD_OK
                   /\ pc' = "ret"
    /\ UNCHANGED <<k32state, call, mem, ddcore, frames>>

GetAttachedSurface ==
    /\ InShim("IDirectDrawSurface7::GetAttachedSurface")
    /\ LET a == Popped(stack, 3)
           this == a[1]
           lpDirectDrawSurface7 == a[3]
           \* this_surface.host.get_attached(): the host's next surface
           host == Len(host_surfaces) + 1
           x86_surface == IDirectDrawSurface7_new(heap, mem)
       IN  /\ Pops(3)
           /\ IF \/ this \notin DOMAIN surfaces
                 \/ x86_surface.kind = "panic"
                 \/ ~InMem(lpDirectDrawSurface7, 4)
              THEN /\ Panic
                   /\ UNCHANGED <<eax, mem, heap, surfaces, host_surfaces, host_log>>
              ELSE /\ host_surfaces' = Append(host_surfaces,
                          [kind |-> "attached", of |-> surfaces[this].host])
                   /\ host_log' = Append(host_log,
                          [op |-> "get_attached", of |-> surfaces[this].host,
                           host |-> host])
                   /\ heap' = x86_surface.heap
                   /\ mem' = write_u32(x86_surface.mem, lpDirectDrawSurface7,
                                       x86_surface.addr)
                   /\ surfaces' = Insert(surfaces, x86_surface.addr,
                          [host |-> host, width |-> surfaces[this].width,
                           height |-> surfaces[this].height,
                           palette |-> surfaces[this].palette,
                           pixels |-> surfaces[this].pixels])
                   /\ eax' = DD_OK
                   /\ pc' = "ret"
    /\ UNCHANGED <<k32state, call, windows, palettes, palette_hack, hwnd, dd_width,
                   dd_height, dcs, frames>>

\* gdi32.dcs.add(dc): the handle of the new DC
GetDC ==
    /\ InShim("IDirectDrawSurface7::GetDC")
    /\ LET a == Popped(stack, 2)
           this == a[1]
           lpHDC == a[2]
           handle == Len(dcs) + 1
       IN  /\ Pops(2)
           /\ IF ~InMem(lpHDC, 4)
              THEN /\ Panic
                   /\ UNCHANGED <<eax, mem, dcs>>
              ELSE /\ dcs' = Append(dcs, [ddraw_surface |-> this])
                   /\ mem' = write_u32(mem, lpHDC, handle)
                   /\ eax' = DD_OK
                   /\ pc' = "ret"
    /\ UNCHANGED <<k32state, call, windows, surfaces, palettes, palette_hack, hwnd,
                   dd_width, dd_height, heap, host_surfaces, host_log, frames>>

\* the fields GetSurfaceDesc fills in the desc at lpDesc
SurfaceDescFields(m, lpDesc, surf) ==
    LET d     == DDSURFACEDESC2
        flags == RdU32(m, lpDesc + d.dwFlags)
    IN  PutU32s(m,
          (IF Contains(flags, DDSD.WIDTH)
           THEN << <<lpDesc + d.dwWidth, surf.width>> >> ELSE <<>>)
          \o (IF Contains(flags, DDSD.HEIGHT)
              THEN << <<lpDesc + d.dwHeight, surf.height>> >> ELSE <<>>))

GetSurfaceDesc ==
    /\ InShim("IDirectDrawSurface7::GetSurfaceDesc")
    /\ LET a == Popped(stack, 2)
           this == a[1]
           lpDesc == a[2]
       IN  /\ Pops(2)
           /\ IF \/ this \notin DOMAIN surfaces
                 \/ lpDesc = 0 \/ ~InMem(lpDesc, DDSURFACEDESC2.size)
                 \/ RdU32(mem, lpDesc + DDSURFACEDESC2.dwSize) # DDSURFACEDESC2.size
              THEN /\ Panic
                   /\ UNCHANGED <<eax, mem>>
              ELSE /\ mem' = SurfaceDescFields(mem, lpDesc, surfaces[this])
                   /\ eax' = DDERR_GENERIC
                   /\ pc' = "ret"
    /\ UNCHANGED <<k32state, call, rest>>

\* (mutant) the pitch is the surface's height
LockDesc_height(m, desc, surf, pixels) ==
    LET d == DDSURFACEDESC2
    IN  PutU32s(m, << <<desc + d.dwFlags, DDSD.LPSURFACE>>,
                      <<desc + d.lpSurface, pixels>>,
                      <<desc + d.lPitch, surf.height>> >>)

\* the three fields Lock writes; bytes_per_pixel is 1
LockDesc(m, desc, surf, pixels) ==
    LET d == DDSURFACEDESC2
    IN  PutU32s(m, << <<desc + d.dwFlags, DDSD.LPSURFACE>>,
                      <<desc + d.lpSurface, pixels>>,
                      <<desc + d.lPitch, surf.width>> >>)

\* surf.width * surf.height * bytes_per_pixel
PixelBytes(surf) == Mul32(surf.width, surf.height)

Lock ==
    /\ InShim("IDirectDrawSurface7::Lock")
    /\ LET a == Popped(stack, 5)
           this == a[1]
           rect == a[2]
           desc == a[3]
       IN  /\ Pops(5)
           /\ IF \/ rect # 0
                 \/ desc = 0 \/ ~InMem(desc, DDSURFACEDESC2.size)
                 \/ this \notin DOMAIN surfaces
              THEN /\ Panic
                   /\ UNCHANGED <<eax, mem, heap, surfaces, host_log>>
              ELSE LET surf == surfaces[this]
                       n == PixelBytes(surf)
                       r == HeapAlloc(heap, n.val)
                   IN  IF surf.pixels # 0
                       THEN /\ mem' = LockDesc(mem, desc, surf, surf.pixels)
                            /\ eax' = DD_OK
                            /\ pc' = "ret"
                            /\ UNCHANGED <<heap, surfaces, host_log>>
                       ELSE IF (overflow_checks /\ n.ovf) \/ r.kind = "panic"
                       THEN /\ Panic
                            /\ UNCHANGED <<eax, mem, heap, surfaces, host_log>>
                       ELSE /\ heap' = r.heap
                            /\ host_log' = Append(host_log,
                                   [op |-> "heap.alloc", size |-> n.val,
                                    addr |-> r.addr])
                            /\ surfaces' = [surfaces EXCEPT ![this].pixels = r.addr]
                            /\ mem' = LockDesc(mem, desc, surf, r.addr)
                            /\ eax' = DD_OK
                            /\ pc' = "ret"
    /\ UNCHANGED <<k32state, call, windows, palettes, palette_hack, hwnd, dd_width,
                   dd_height, dcs, host_surfaces, frames>>

ReleaseDC ==
    /\ InShim("IDirectDrawSurface7::ReleaseDC")
    /\ Pops(2)
    /\ eax' = DD_OK
    /\ pc' = "ret"
    /\ UNCHANGED <<k32state, call, mem, rest>>

Restore ==
    /\ InShim("IDirectDrawSurface7::Restore")
    /\ Pops(1)
    /\ eax' = DD_OK
    /\ pc' = "ret"
    /\ UNCHANGED <<k32state, call, mem, rest>>

SetPalette ==
    /\ InShim("IDirectDrawSurface7::SetPalette")
    /\ LET a == Popped(stack, 2)
           this == a[1]
           palette == a[2]
       IN  /\ Pops(2)
           /\ IF this \notin DOMAIN surfaces
              THEN /\ Panic
                   /\ UNCHANGED <<eax, surfaces, palette_hack>>
              ELSE /\ surfaces' = [surfaces EXCEPT ![this].palette = palette]
                   /\ palette_hack' = palette
                   /\ eax' = DD_OK
                   /\ pc' = "ret"
    /\ UNCHANGED <<k32state, call, mem, windows, palettes, hwnd, dd_width,
                   dd_height, heap, dcs, host_surfaces, host_log, frames>>

\* (mutant) the alpha byte is the entry's peFlags
Pixels32_flags(m, pixels, n, palette) ==
    [i \in 1..n |->
        LET p == PALETTEENTRY(palette, Rd8(m, pixels + i - 1))
        IN  <<p.peRed, p.peGreen, p.peBlue, p.peFlags>>]

\* pixels.iter().map(|&i| [p.peRed, p.peGreen, p.peBlue, 255]) with p = palette[i]
Pixels32(m, pixels, n, palette) ==
    [i \in 1..n |->
        LET p == PALETTEENTRY(palette, Rd8(m, pixels + i - 1))
        IN  <<p.peRed, p.peGreen, p.peBlue, 255>>]

Unlock ==
    /\ InShim("IDirectDrawSurface7::Unlock")
    /\ LET a == Popped(stack, 2)
           this == a[1]
           rect == a[2]
       IN  /\ Pops(2)
           /\ IF this \notin DOMAIN surfaces \/ (rect # 0 /\ ~InMem(rect, RECT.size))
              THEN /\ Panic
                   /\ UNCHANGED <<eax, mem, host_log>>
              ELSE LET surf == surfaces[this]
                       mem1 == IF rect = 0 THEN mem
                               ELSE PutU32s(mem, << <<rect + RECT.left, 0>>,
                                                    <<rect + RECT.top, 0>>,
                                                    <<rect + RECT.right, surf.width>>,
                                                    <<rect + RECT.bottom, surf.height>> >>)
                       phack == palette_hack
                       n == PixelBytes(surf)
                   IN  IF surf.pixels # 0 /\ phack # 0
                       THEN IF \/ (overflow_checks /\ n.ovf)
                               \/ ~InMem(surf.pixels, n.val)
                               \/ phack \notin DOMAIN palettes
                            THEN /\ Panic
                                 /\ UNCHANGED <<eax, mem, host_log>>
                            ELSE /\ mem' = mem1
                                 /\ host_log' = Append(host_log,
                                        [op |-> "write_pixels", host |-> surf.host,
                                         pixels |-> Pixels32(mem1, surf.pixels, n.val,
                                                             palettes[phack])])
                                 /\ eax' = DD_OK
                                 /\ pc' = "ret"
                       ELSE /\ mem' = mem1
                            /\ eax' = DD_OK
                            /\ pc' = "ret"
                            /\ UNCHANGED host_log
    /\ UNCHANGED <<k32state, call, ddcore, frames>>

---------------------------------------------------------------------------
(* The guest program around ddraw *)


IDirectDraw7 == { "IDirectDraw7::Release", "IDirectDraw7::CreatePalette",
                  "IDirectDraw7::CreateSurface", "IDirectDraw7::EnumDisplayModes",
                  "IDirectDraw7::SetCooperativeLevel",
                  "IDirectDraw7::SetDisplayMode" }

\* The argument lists guest code calls each IDirectDraw7 method with, this
\* first.
IDirectDraw7Args(sym) ==
    LET dd == Guest.ddraw_obj
    IN
    CASE sym = "IDirectDraw7::Release" -> { <<dd>> }
      [] sym = "IDirectDraw7::CreatePalette" ->
            { <<dd, f, Guest.pal_entries, Guest.out_ptr, 0>> :
                  f \in {DDPCAPS.BIT8, 0, DDPCAPS.all + 1 + DDPCAPS.BIT8} }
            \cup { <<dd, DDPCAPS.BIT8, MemSize - 8, Guest.out_ptr, 0>> }
      [] sym = "IDirectDraw7::CreateSurface" ->
            { <<dd, d, Guest.out_ptr, 0>> :
                  d \in {Guest.desc_plain, Guest.desc_primary, Guest.desc_scratch,
                         Guest.desc_out, 0} }
            \cup { <<dd, Guest.desc_plain, 0, 0>> }
      [] sym = "IDirectDraw7::EnumDisplayModes" ->
            { <<dd, 0, f, Guest.context, Guest.callback>> :
                  f \in {0, Guest.desc_plain} }
      [] sym = "IDirectDraw7::SetCooperativeLevel" ->
            { <<dd, h, 8>> : h \in {0, Guest.hwnd} }
      [] sym = "IDirectDraw7::SetDisplayMode" ->
            { <<dd, 320, 200, 8, 0, 0>>, <<dd, 640, 480, 8, 0, 0>> }

IDirectDrawSurface7 ==
    { "IDirectDrawSurface7::Release", "IDirectDrawSurface7::BltFast",
      "IDirectDrawSurface7::Flip", "IDirectDrawSurface7::GetAttachedSurface",
      "IDirectDrawSurface7::GetDC", "IDirectDrawSurface7::GetSurfaceDesc",
      "IDirectDrawSurface7::Lock", "IDirectDrawSurface7::ReleaseDC",
      "IDirectDrawSurface7::Restore", "IDirectDrawSurface7::SetPalette",
      "IDirectDrawSurface7::Unlock" }

\* The argument lists guest code calls each IDirectDrawSurface7 method with,
\* and CreateSurface for them: every surface it has with plain arguments, and
\* its first surface with each argument in turn replaced by a bad one.
IDirectDrawSurface7Args(sym) ==
    LET dd == Guest.ddraw_obj
        S  == DOMAIN surfaces
        S1 == {s \in S : \A t \in S : s <= t}
    IN
    CASE sym = "IDirectDraw7::CreateSurface" ->
            { <<dd, d, Guest.out_ptr, 0>> :
                  d \in {Guest.desc_plain, Guest.desc_big, 0} }
      [] sym = "IDirectDrawSurface7::Release" -> { <<s>> : s \in S \cup {dd} }
      [] sym = "IDirectDrawSurface7::BltFast" ->
            { <<s, 4, 4, t, Guest.rect, 0>> : s \in S, t \in S }
            \cup { <<s, 4, 4, dd, Guest.rect, 0>> : s \in S1 }
            \cup { <<s, 4, 4, t, r, 0>> : s \in S1, t \in S \ S1,
                                          r \in {0, Guest.rect_rev} }
      [] sym = "IDirectDrawSurface7::Flip" -> { <<s, 0, 0>> : s \in S \cup {dd} }
      [] sym = "IDirectDrawSurface7::GetAttachedSurface" ->
            { <<s, 0, Guest.out_ptr>> : s \in S \cup {dd} }
            \cup { <<s, 0, MemSize - 2>> : s \in S1 }
      [] sym = "IDirectDrawSurface7::GetDC" ->
            { <<s, Guest.out_ptr>> : s \in S } \cup { <<dd, MemSize - 2>> }
      [] sym = "IDirectDrawSurface7::GetSurfaceDesc" ->
            { <<s, Guest.desc_plain>> : s \in S \cup {dd} }
            \cup { <<s, d>> : s \in S1, d \in {Guest.desc_scratch, Guest.desc_primary,
                                                Guest.desc_out, 0} }
      [] sym = "IDirectDrawSurface7::Lock" ->
            { <<s, 0, Guest.desc_out, 0, 0>> : s \in S \cup {dd} }
            \cup { <<s, Guest.rect, Guest.desc_out, 0, 0>> : s \in S1 }
            \cup { <<s, 0, 0, 0, 0>> : s \in S1 }
      [] sym = "IDirectDrawSurface7::ReleaseDC" -> { <<s, 1>> : s \in S1 \cup {dd} }
      [] sym = "IDirectDrawSurface7::Restore" -> { <<s>> : s \in S \cup {dd} }
      [] sym = "IDirectDrawSurface7::SetPalette" ->
            { <<s, p>> : s \in S, p \in {0, Guest.palette} } \cup { <<dd, 0>> }
      [] sym = "IDirectDrawSurface7::Unlock" ->
            { <<s, 0>> : s \in S \cup {dd} }
            \cup { <<s, r>> : s \in S1, r \in {Guest.rect, MemSize - 2} }

PaletteMethods == { "IDirectDraw7::CreatePalette", "IDirectDraw7::CreateSurface",
                    "IDirectDrawSurface7::Lock", "IDirectDrawSurface7::SetPalette",
                    "IDirectDrawSurface7::Unlock" }

\* The argument lists of a guest that draws through a palette.
PaletteArgs(sym) ==
    LET dd == Guest.ddraw_obj
        S  == DOMAIN surfaces
    IN
    CASE sym = "IDirectDraw7::CreatePalette" ->
            { <<dd, DDPCAPS.BIT8, Guest.pal_entries, Guest.out_ptr, 0>> }
      [] sym = "IDirectDraw7::CreateSurface" ->
            { <<dd, d, Guest.out_ptr, 0>> : d \in {Guest.desc_plain, Guest.desc_big} }
      [] sym = "IDirectDrawSurface7::Lock" ->
            { <<s, 0, Guest.desc_out, 0, 0>> : s \in S }
      [] sym = "IDirectDrawSurface7::SetPalette" ->
            { <<s, p>> : s \in S, p \in DOMAIN palettes \cup {0, Guest.palette} }
      [] sym = "IDirectDrawSurface7::Unlock" ->
            { <<s, r>> : s \in S, r \in {0, Guest.rect} }

ModeMethods == { "IDirectDraw7::SetCooperativeLevel", "IDirectDraw7::SetDisplayMode" }

\* The argument lists of a guest that sets the cooperative level and the
\* display mode: no window, each window user32 may have made, and two modes.
ModeArgs(sym) ==
    CASE sym = "IDirectDraw7::SetCooperativeLevel" ->
            { <<Guest.ddraw_obj, h, 8>> : h \in 0..MaxWindows }
      [] sym = "IDirectDraw7::SetDisplayMode" ->
            { <<Guest.ddraw_obj, 320, 200, 8, 0, 0>>,
              <<Guest.ddraw_obj, 640, 480, 8, 0, 0>> }

ObjectMethods == IDirectDrawSurface7 \cup { "IDirectDraw7::CreateSurface",
                                            "IDirectDraw7::EnumDisplayModes" }

\* The argument lists of a guest that also passes pointers into the ddraw
\* heap: the address of a surface object, or of the object about to be made,
\* as an out pointer, a rect or a desc.
ObjectArgs(sym) ==
    LET dd == Guest.ddraw_obj
        S  == DOMAIN surfaces
        S1 == {s \in S : \A t \in S : s <= t}
        next == HeapAlloc(heap, 4)
    IN
    CASE sym = "IDirectDraw7::CreateSurface" ->
            { <<dd, Guest.desc_plain, o, 0>> :
                 o \in {Guest.out_ptr} \cup (IF next.kind = "ok" THEN {next.addr} ELSE {}) }
      [] sym = "IDirectDraw7::EnumDisplayModes" ->
            { <<dd, 0, 0, Guest.context, Guest.callback>> }
      [] sym = "IDirectDrawSurface7::Release" -> { <<s>> : s \in S1 }
      [] sym = "IDirectDrawSurface7::BltFast" ->
            { <<s, 4, 4, t, Guest.rect, 0>> : s \in S1, t \in S \ S1 }
      [] sym = "IDirectDrawSurface7::Flip" -> { <<s, 0, 0>> : s \in S1 }
      [] sym = "IDirectDrawSurface7::GetAttachedSurface" ->
            { <<s, 0, Guest.out_ptr>> : s \in S1 }
      [] sym = "IDirectDrawSurface7::GetDC" ->
            { <<s, o>> : s \in S1, o \in S1 }
      [] sym = "IDirectDrawSurface7::GetSurfaceDesc" ->
            { <<s, Guest.desc_plain>> : s \in S1 }
      [] sym = "IDirectDrawSurface7::Lock" ->
            { <<s, 0, Guest.desc_out, 0, 0>> : s \in S }
            \cup { <<s, 0, s - 4, 0, 0>> : s \in S \ S1 }
      [] sym = "IDirectDrawSurface7::ReleaseDC" -> { <<s, 1>> : s \in S1 }
      [] sym = "IDirectDrawSurface7::Restore" -> { <<s>> : s \in S1 }
      [] sym = "IDirectDrawSurface7::SetPalette" -> { <<s, 0>> : s \in S1 }
      [] sym = "IDirectDrawSurface7::Unlock" ->
            { <<s, r>> : s \in S1, r \in {0, Guest.rect} \cup S1 }

ReleaseMethods == IDirectDraw7 \cup IDirectDrawSurface7

\* The argument lists of a guest that uses every ddraw shim, with plain
\* arguments, and releases its objects while it still uses them.  It sets the
\* display up before it creates its first surface.
ReleaseArgs(sym) ==
    LET dd == Guest.ddraw_obj
        S  == DOMAIN surfaces
        S1 == {s \in S : \A t \in S : s <= t}
        setup == S = {} /\ DOMAIN palettes = {}
    IN
    CASE sym = "IDirectDraw7::Release" -> { <<dd>> }
      [] sym = "IDirectDraw7::CreatePalette" ->
            { <<dd, DDPCAPS.BIT8, Guest.pal_entries, Guest.out_ptr, 0>> }
      [] sym = "IDirectDraw7::CreateSurface" ->
            { <<dd, Guest.desc_plain, Guest.out_ptr, 0>> }
      [] sym = "IDirectDraw7::EnumDisplayModes" ->
            IF setup THEN { <<dd, 0, 0, Guest.context, Guest.callback>> } ELSE {}
      [] sym = "IDirectDraw7::SetCooperativeLevel" ->
            IF setup THEN { <<dd, 0, 8>> } ELSE {}
      [] sym = "IDirectDraw7::SetDisplayMode" ->
            IF setup THEN { <<dd, 320, 200, 8, 0, 0>> } ELSE {}
      [] sym = "IDirectDrawSurface7::Release" -> { <<s>> : s \in S }
      [] sym = "IDirectDrawSurface7::BltFast" ->
            { <<s, 4, 4, t, Guest.rect, 0>> : s \in S1, t \in S \ S1 }
      [] sym = "IDirectDrawSurface7::Flip" -> { <<s, 0, 0>> : s \in S1 }
      [] sym = "IDirectDrawSurface7::GetAttachedSurface" ->
            { <<s, 0, Guest.out_ptr>> : s \in S1 }
      [] sym = "IDirectDrawSurface7::GetDC" -> { <<s, Guest.out_ptr>> : s \in S1 }
      [] sym = "IDirectDrawSurface7::GetSurfaceDesc" ->
            { <<s, Guest.desc_plain>> : s \in S1 }
      [] sym = "IDirectDrawSurface7::Lock" ->
            { <<s, 0, Guest.desc_out, 0, 0>> : s \in S }
      [] sym = "IDirectDrawSurface7::ReleaseDC" -> { <<s, 1>> : s \in S1 }
      [] sym = "IDirectDrawSurface7::Restore" -> { <<s>> : s \in S1 }
      [] sym = "IDirectDrawSurface7::SetPalette" ->
            { <<s, p>> : s \in S1, p \in DOMAIN palettes }
      [] sym = "IDirectDrawSurface7::Unlock" -> { <<s, 0>> : s \in S }

\* Before a ddraw call the guest has set up its descs, rect and out
\* parameters afresh; the heap's bytes are as they were.
GuestPrepare(m) ==
    [x \in DOMAIN GuestImage \cup {y \in DOMAIN m : y >= DDraw.heap_base} |->
        IF x >= DDraw.heap_base THEN m[x] ELSE GuestImage[x]]

DDCall(sym, args) ==
    /\ Call(sym, args)
    /\ mem' = GuestPrepare(mem)

\* the byte patterns the guest draws with
PixelPatterns == { <<7, 7, 7, 7>>, <<7, 9, 0, 9>> }

\* Guest code stores a pattern at the start of a pixel buffer a Lock gave it.
GuestStore(s, bytes) ==
    /\ pc = "guest"
    /\ s \in DOMAIN surfaces
    /\ surfaces[s].pixels # 0
    /\ mem' = PutBytes(mem, surfaces[s].pixels, bytes)
    /\ mem' # mem
    /\ UNCHANGED <<k32state, pc, call, stack, esp, eax, rest>>

---------------------------------------------------------------------------
(* Specifications *)

\* The mapping list under the loader's and the allocator's calls.
NextAlloc ==
    \/ \E m \in LoaderMappings : add_mapping(m)
    \/ \E size \in AllocSizes : alloc(size)

SpecAlloc == Init /\ [][NextAlloc]_vars

\* Guest code calling the kernel32 / user32 imports.
NextK32 ==
    \/ \E m \in {Mapping(8192, 4096, "image"), Mapping(24576, 4096, "stack")} :
          add_mapping(m)
    \/ LoadImage(4194304)
    \/ \E sym \in Symbols : \E args \in GuestArgs(sym) :
          Call(sym, args) /\ UNCHANGED mem
    \/ ExitProcess
    \/ GetModuleHandleA
    \/ WriteFile
    \/ VirtualAlloc
    \/ RegisterClassA
    \/ CreateWindowExA
    \/ UpdateWindow
    \/ Ret

SpecK32 == Init /\ [][NextK32]_vars

\* Guest code calling the IDirectDraw7 methods.
NextDD ==
    \/ \E sym \in IDirectDraw7 : \E args \in IDirectDraw7Args(sym) : DDCall(sym, args)
    \/ IDirectDraw7_Release
    \/ CreatePalette
    \/ CreateSurface
    \/ EnumDisplayModes
    \/ EnumDisplayModes_resume
    \/ SetCooperativeLevel
    \/ SetDisplayMode
    \/ Ret

SpecDD == Init /\ [][NextDD]_vars

\* Guest code creating surfaces and calling the IDirectDrawSurface7 methods.
NextSurface ==
    \/ \E sym \in IDirectDrawSurface7 \cup {"IDirectDraw7::CreateSurface"} :
          \E args \in IDirectDrawSurface7Args(sym) : DDCall(sym, args)
    \/ CreateSurface
    \/ IDirectDrawSurface7_Release
    \/ BltFast
    \/ Flip
    \/ GetAttachedSurface
    \/ GetDC
    \/ GetSurfaceDesc
    \/ Lock
    \/ ReleaseDC
    \/ Restore
    \/ SetPalette
    \/ Unlock
    \/ Ret

SpecSurface == Init /\ [][NextSurface]_vars

\* Guest code drawing through a palette: it creates the palette and the
\* surfaces, locks, stores pixels, sets the palette and unlocks.
NextPalette ==
    \/ \E sym \in PaletteMethods : \E args \in PaletteArgs(sym) : DDCall(sym, args)
    \/ \E s \in DOMAIN surfaces : \E bytes \in PixelPatterns : GuestStore(s, bytes)
    \/ CreatePalette
    \/ CreateSurface
    \/ Lock
    \/ SetPalette
    \/ Unlock
    \/ Ret

SpecPalette == Init /\ [][NextPalette]_vars

\* The display mode and the window: SetCooperativeLevel and SetDisplayMode
\* with the windows user32 has.
NextMode ==
    \/ \E sym \in ModeMethods : \E args \in ModeArgs(sym) : DDCall(sym, args)
    \/ NewWindow
    \/ SetCooperativeLevel
    \/ SetDisplayMode
    \/ Ret

SpecMode == Init /\ [][NextMode]_vars

\* The surface objects in guest memory: every shim that makes a surface and
\* every shim the guest can hand a pointer to.
NextObject ==
    \/ \E sym \in ObjectMethods : \E args \in ObjectArgs(sym) : DDCall(sym, args)
    \/ CreateSurface
    \/ EnumDisplayModes
    \/ EnumDisplayModes_resume
    \/ IDirectDrawSurface7_Release
    \/ BltFast
    \/ Flip
    \/ GetAttachedSurface
    \/ GetDC
    \/ GetSurfaceDesc
    \/ Lock
    \/ ReleaseDC
    \/ Restore
    \/ SetPalette
    \/ Unlock
    \/ Ret

SpecObject == Init /\ [][NextObject]_vars

\* Every ddraw shim, for what Release leaves behind.
NextRelease ==
    \/ \E sym \in ReleaseMethods : \E args \in ReleaseArgs(sym) : DDCall(sym, args)
    \/ IDirectDraw7_Release
    \/ CreatePalette
    \/ CreateSurface
    \/ EnumDisplayModes
    \/ EnumDisplayModes_resume
    \/ SetCooperativeLevel
    \/ SetDisplayMode
    \/ IDirectDrawSurface7_Release
    \/ BltFast
    \/ Flip
    \/ GetAttachedSurface
    \/ GetDC
    \/ GetSurfaceDesc
    \/ Lock
    \/ ReleaseDC
    \/ Restore
    \/ SetPalette
    \/ Unlock
    \/ Ret

SpecRelease == Init /\ [][NextRelease]_vars


---------------------------------------------------------------------------
(* Claims about the mapping list (SpecAlloc) *)

SortedStrict(ms) ==
    \A i, j \in 1..Len(ms) : i < j => ms[i].addr < ms[j].addr
\* [a.addr, a.addr + a.size) and [b.addr, b.addr + b.size) share no address
RangesDisjoint(a, b) ==
    \/ a.size = 0 \/ b.size = 0
    \/ a.addr + a.size <= b.addr
    \/ b.addr + b.size <= a.addr
PairwiseDisjoint(ms) ==
    \A i, j \in 1..Len(ms) : i < j => RangesDisjoint(ms[i], ms[j])

\* C1: after any sequence of add_mapping and alloc calls that did not abort,
\* the mapping list is sorted by addr in strictly increasing order, the
\* ranges of any two mappings are disjoint, and every addr alloc returned is
\* a multiple of 0x1000.
C1_SortedDisjointAligned ==
    pc # "abort" =>
        /\ SortedStrict(mappings)
        /\ PairwiseDisjoint(mappings)
        /\ \A a \in allocated : a % PAGE = 0

---------------------------------------------------------------------------
(* Claims about the kernel32 / user32 shims (SpecK32) *)

\* C2: in the initial state (the null guard is the only mapping)
\* VirtualAlloc(0, 0x2000, 0x1000, 0) returns, adds exactly one mapping, of
\* size 0x2000 at a page-aligned addr >= NULL_POINTER_REGION_SIZE, and leaves
\* that addr in eax.
C2_VirtualAllocBasic ==
    [][ ( /\ InShim("kernel32.dll!VirtualAlloc")
          /\ call.args = <<0, 8192, 4096, 0>>
          /\ mappings = NewMappings )
        => ( /\ pc' = "ret"
             /\ Len(mappings') = 2
             /\ \E i \in 1..2 :
                   /\ mappings' = InsertAt(mappings, i, mappings'[i])
                   /\ mappings'[i].size = 8192
                   /\ mappings'[i].addr % PAGE = 0
                   /\ mappings'[i].addr >= NULL_POINTER_REGION_SIZE
                   /\ eax' = mappings'[i].addr ) ]_vars

\* C3: a WriteFile call with hFile = STDOUT_HFILE and lpOverlapped = 0 (the
\* first and the fifth word popped) that returns has given the host writer
\* exactly the bytes mem[lpBuffer .. lpBuffer + n], once, has stored the count
\* the host returned at lpNumberOfBytesWritten, and has set eax to 1; and it
\* does return when the buffer and the 4 bytes at lpNumberOfBytesWritten lie
\* in guest memory.
C3_WriteFileStdout ==
    [][ ( /\ InShim("kernel32.dll!WriteFile")
          /\ call.args[1] = STDOUT_HFILE
          /\ call.args[5] = 0 )
        => /\ ( pc' = "ret" =>
                 /\ Len(host_written') = Len(host_written) + 1
                 /\ SubSeq(host_written', 1, Len(host_written)) = host_written
                 /\ host_written'[Len(host_written')].buf
                        = Slice(mem, call.args[2], call.args[3])
                 /\ RdU32(mem', call.args[4]) = host_written'[Len(host_written')].n
                 /\ \A x \in 0..(MemSize - 1) :
                        (x < call.args[4] \/ x >= call.args[4] + 4)
                            => Rd8(mem', x) = Rd8(mem, x)
                 /\ eax' = 1 )
           /\ ( InMem(call.args[2], call.args[3]) /\ InMem(call.args[4], 4)
                    => pc' = "ret" ) ]_vars

C3_Witness ==
    /\ pc = "ret" /\ call.sym = "kernel32.dll!WriteFile"
    /\ call.args[1] = STDOUT_HFILE /\ call.args[5] = 0
    /\ Len(host_written) = 1 /\ host_written[1].buf = Hello
    /\ host_written[1].n = 2
    /\ RdU32(mem, call.args[4]) = 2
    /\ eax = 1

\* C4: GetModuleHandleA sets eax to image_base when lpModuleName is 0 and to 0
\* when it is not; image_base and the mapping list are unchanged.
C4_GetModuleHandleA ==
    [][ InShim("kernel32.dll!GetModuleHandleA")
        => /\ eax' = (IF call.args[1] = 0 THEN image_base ELSE 0)
           /\ image_base' = image_base
           /\ mappings' = mappings ]_vars

\* the number of 32-bit arguments of each import's Win32 signature
SignatureArgs(sym) ==
    CASE sym = "kernel32.dll!ExitProcess" -> 1
      [] sym = "kernel32.dll!GetModuleHandleA" -> 1
      [] sym = "kernel32.dll!WriteFile" -> 5
      [] sym = "kernel32.dll!VirtualAlloc" -> 4
      [] sym = "user32.dll!RegisterClassA" -> 1
      [] sym = "user32.dll!CreateWindowExA" -> 12
      [] sym = "user32.dll!UpdateWindow" -> 1

\* C8: a shim that returns has popped exactly the N arguments of its
\* signature, whatever their values, and the interpreter's return that
\* follows leaves esp at its value at shim entry plus 4*N plus 4.
C8_StdcallPops ==
    [][ /\ ( pc = "shim" /\ pc' = "ret" =>
               /\ esp' = call.esp0 + 4 * SignatureArgs(call.sym)
               /\ stack' = AfterPop(stack, SignatureArgs(call.sym))
               /\ call' = call /\ esp = call.esp0 )
        /\ ( pc = "ret" /\ pc' = "guest" =>
               esp' = call.esp0 + 4 * SignatureArgs(call.sym) + 4 ) ]_vars

C8_Witness ==
    /\ pc = "ret" /\ call.sym = "user32.dll!CreateWindowExA"
    /\ esp = call.esp0 + 48
    /\ stack = <<Guest.ret_addr>>

\* C9: each CreateWindowExA call sets eax to a non-zero window handle that no
\* earlier CreateWindowExA call returned (window records are never removed,
\* so: one that resolved to no window record before the call), and the handle
\* resolves to a window record afterwards.
C9_CreateWindowFreshHandle ==
    [][ InShim("user32.dll!CreateWindowExA")
        => /\ pc' = "ret"
           /\ eax' # 0
           /\ eax' \notin DOMAIN windows
           /\ eax' \in DOMAIN windows' ]_vars

---------------------------------------------------------------------------
(* Claims about the IDirectDrawSurface7 methods (SpecSurface, SpecPalette) *)

\* the heap requests a shim call has made so far
HeapRequests == SelectSeq(host_log, LAMBDA e : e.op = "heap.alloc")
\* the host calls a shim call has made so far
HostCalls == SelectSeq(host_log, LAMBDA e : e.op # "heap.alloc")

\* C5: a surface's pixels, once non-zero, is changed by no step (so by no
\* Lock, Unlock, SetPalette, Flip, BltFast, GetSurfaceDesc, GetDC or Release
\* on any surface); a Lock(S) with a null rect that returns has stored
\* S.pixels in desc.lpSurface, S.width in desc.lPitch and LPSURFACE in
\* desc.dwFlags and returns DD_OK; it asks the heap for a pixel buffer only
\* when S.pixels was 0, once, for the 32-bit product S.width * S.height
\* (the exact product in a build that checks overflow), and leaves S.pixels
\* non-zero, so the heap is asked at most once for S; and it does return when
\* S is a surface that has its pixels and desc lies in guest memory.
C5_LockPixels ==
    [][ /\ \A s \in DOMAIN surfaces :
              surfaces[s].pixels # 0
                  => s \in DOMAIN surfaces' /\ surfaces'[s].pixels = surfaces[s].pixels
        /\ ( InShim("IDirectDrawSurface7::Lock") /\ call.args[2] = 0 /\ pc' = "ret"
             => LET S == call.args[1]
                    desc == call.args[3]
                    d == DDSURFACEDESC2
                    product == surfaces[S].width * surfaces[S].height
                IN  /\ surfaces'[S].pixels # 0
                    /\ RdU32(mem', desc + d.lpSurface) = surfaces'[S].pixels
                    /\ RdU32(mem', desc + d.lPitch) = surfaces[S].width
                    /\ RdU32(mem', desc + d.dwFlags) = DDSD.LPSURFACE
                    /\ eax' = DD_OK
                    /\ IF surfaces[S].pixels # 0
                       THEN HeapRequests' = <<>> /\ heap' = heap
                       ELSE /\ Len(HeapRequests') = 1
                            /\ HeapRequests'[1].size = product % WordMod
                            /\ overflow_checks => HeapRequests'[1].size = product
                            /\ HeapRequests'[1].addr = surfaces'[S].pixels )
        /\ ( /\ InShim("IDirectDrawSurface7::Lock") /\ call.args[2] = 0
             /\ call.args[1] \in DOMAIN surfaces
             /\ call.args[3] # 0 /\ InMem(call.args[3], DDSURFACEDESC2.size)
             /\ surfaces[call.args[1]].pixels # 0
             => pc' = "ret" ) ]_vars

\* a second Lock of a 4x1 surface: no heap request, the same pixels
C5_Witness ==
    /\ pc = "ret" /\ call.sym = "IDirectDrawSurface7::Lock" /\ call.args[2] = 0
    /\ call.args[1] \in DOMAIN surfaces
    /\ host_log = <<>>
    /\ surfaces[call.args[1]].pixels # 0
    /\ surfaces[call.args[1]].width = 4 /\ surfaces[call.args[1]].height = 1
    /\ RdU32(mem, call.args[3] + DDSURFACEDESC2.lpSurface)
           = surfaces[call.args[1]].pixels
    /\ RdU32(mem, call.args[3] + DDSURFACEDESC2.lPitch) = 4
    /\ RdU32(mem, call.args[3] + DDSURFACEDESC2.dwFlags) = DDSD.LPSURFACE

\* C6: palette_hack is the palette argument of the most recent SetPalette
\* that returned; an Unlock(S) that returns has called host.write_pixels, once
\* and on S's host surface, when S.pixels # 0 and palette_hack # 0, and has
\* made no host call otherwise; the argument has S.width * S.height entries
\* (the 32-bit product; the exact one in a build that checks overflow) and
\* entry i is (peRed, peGreen, peBlue, 255) of the palette's entry indexed
\* by the byte at S.pixels + i; and Unlock does return when S is a surface,
\* rect is null and either S.pixels or palette_hack is 0 or palette_hack is a
\* palette, the buffer lies in guest memory and the product did not overflow
\* under checks.
C6_UnlockWritesPixels ==
    [][ /\ ( InShim("IDirectDrawSurface7::SetPalette") /\ pc' = "ret"
             => palette_hack' = call.args[2] )
        /\ ( ~InShim("IDirectDrawSurface7::SetPalette")
             => palette_hack' = palette_hack )
        /\ ( InShim("IDirectDrawSurface7::Unlock") /\ pc' = "ret"
             => LET surf == surfaces[call.args[1]]
                    product == surf.width * surf.height
                IN  IF surf.pixels # 0 /\ palette_hack # 0
                    THEN /\ Len(HostCalls') = 1
                         /\ HostCalls'[1].op = "write_pixels"
                         /\ HostCalls'[1].host = surf.host
                         /\ Len(HostCalls'[1].pixels) = product % WordMod
                         /\ overflow_checks => Len(HostCalls'[1].pixels) = product
                         /\ \A i \in 1..Len(HostCalls'[1].pixels) :
                               LET p == PALETTEENTRY(palettes[palette_hack],
                                                     Rd8(mem', surf.pixels + i - 1))
                               IN  HostCalls'[1].pixels[i]
                                       = <<p.peRed, p.peGreen, p.peBlue, 255>>
                    ELSE HostCalls' = <<>> )
        /\ ( /\ InShim("IDirectDrawSurface7::Unlock")
             /\ call.args[1] \in DOMAIN surfaces /\ call.args[2] = 0
             /\ LET surf == surfaces[call.args[1]]
                    product == surf.width * surf.height
                IN  \/ surf.pixels = 0 \/ palette_hack = 0
                    \/ /\ palette_hack \in DOMAIN palettes
                       /\ InMem(surf.pixels, product % WordMod)
                       /\ ~(overflow_checks /\ Ovf(product))
             => pc' = "ret" ) ]_vars

\* the palette's entry 7 is (10, 20, 30); the bytes 7, 7, 7, 7 on a 4x1 surface
C6_Witness ==
    /\ pc = "ret" /\ call.sym = "IDirectDrawSurface7::Unlock"
    /\ call.args[1] \in DOMAIN surfaces
    /\ surfaces[call.args[1]].width = 4 /\ surfaces[call.args[1]].height = 1
    /\ Slice(mem, surfaces[call.args[1]].pixels, 4) = <<7, 7, 7, 7>>
    /\ palette_hack \in DOMAIN palettes
    /\ host_log = << [op |-> "write_pixels", host |-> surfaces[call.args[1]].host,
                      pixels |-> << <<10, 20, 30, 255>>, <<10, 20, 30, 255>>,
                                    <<10, 20, 30, 255>>, <<10, 20, 30, 255>> >>] >>

---------------------------------------------------------------------------
(* Claims about the IDirectDraw7 methods (SpecDD) *)

\* The order of an EnumDisplayModes call with a null filter: the scratch desc
\* is allocated and filled, the callback is started once with
\* (desc_addr, lpContext), the desc stays live while the call waits, and the
\* free and the return of DD_OK come in the step after the callback's return.
C7_Order ==
    /\ ( InShim("IDirectDraw7::EnumDisplayModes") /\ call.args[3] = 0
         /\ pc' # "abort"
         => \E b \in heap'.live \ heap.live :
               LET d == DDSURFACEDESC2
               IN  /\ heap'.live = heap.live \cup {b}
                   /\ b.size >= d.size
                   /\ RdU32(mem', b.addr + d.dwWidth) = 320
                   /\ RdU32(mem', b.addr + d.dwHeight) = 200
                   /\ RdU32(mem', b.addr + d.ddpfPixelFormat
                                  + DDPIXELFORMAT.dwRGBBitCount) = 8
                   /\ pc' = "guest"
                   /\ Len(frames') = Len(frames) + 1
                   /\ Tail(frames') = frames
                   /\ frames'[1].desc_addr = b.addr
                   /\ frames'[1].eip = call.args[5]
                   /\ frames'[1].args = <<b.addr, call.args[4]>>
                   /\ SubSeq(stack', 2, 3) = <<b.addr, call.args[4]>> )
    /\ ( ~InShim("IDirectDraw7::EnumDisplayModes") => Len(frames') <= Len(frames) )
    /\ \A i \in 1..Len(frames') :
          \E b \in heap'.live : b.addr = frames'[i].desc_addr
    /\ ( Len(frames') < Len(frames)
         => /\ pc = "guest"
            /\ frames' = Tail(frames)
            /\ \E b \in heap.live :
                  /\ b.addr = frames[1].desc_addr
                  /\ heap'.live = heap.live \ {b}
            /\ call' = frames[1].call
            /\ eax' = DD_OK
            /\ pc' = "ret" )

\* C7 (as stated): EnumDisplayModes with a null filter allocates and fills
\* the scratch desc, invokes the callback once with (desc_addr, lpContext),
\* frees desc_addr after the callback has returned and returns DD_OK, and the
\* set of live heap allocations after the call equals the set before it.
C7_LiveSetRestored ==
    [][ /\ C7_Order
        /\ ( Len(frames') < Len(frames) => heap'.live = frames[1].live0 ) ]_vars

\* C7 (amended): EnumDisplayModes with a null filter allocates and fills the
\* scratch desc (320, 200, 8 bits), starts the guest callback once with
\* (desc_addr, lpContext), frees desc_addr only after the callback has
\* returned and returns DD_OK; afterwards desc_addr is not live and every
\* allocation that was live before the call still is, and the live set equals
\* the set before the call when the callback called no shim.
C7_EnumDisplayModes ==
    [][ /\ C7_Order
        /\ ( Len(frames') < Len(frames)
             => /\ frames[1].live0 \subseteq heap'.live
                /\ \A b \in heap'.live : b.addr # frames[1].desc_addr
                /\ ~frames[1].reentered => heap'.live = frames[1].live0 ) ]_vars

\* EnumDisplayModes has returned and a surface its callback created is live
C7_Witness ==
    /\ pc = "ret" /\ call.sym = "IDirectDraw7::EnumDisplayModes"
    /\ frames = <<>> /\ eax = DD_OK
    /\ \E b \in heap.free : \E s \in DOMAIN surfaces :
          /\ b.size = DDSURFACEDESC2.size
          /\ s > b.addr
          /\ \E c \in heap.live : c.addr = s

\* C10: a CreateSurface that returns (its desc.dwSize is valid) has added
\* exactly one surface record, with palette = 0 and pixels = 0, has written
\* the new object's address at the out pointer and returns DD_OK; when desc's
\* caps (present when dwFlags has CAPS) contain PRIMARYSURFACE the record's
\* width and height are those of the most recent SetDisplayMode and the host
\* surface was created with primary = true; otherwise they are desc.dwWidth /
\* desc.dwHeight for the WIDTH / HEIGHT bits set in desc.dwFlags.  No other
\* step adds or changes a surface record's width or height, a SetDisplayMode
\* among them; and CreateSurface does return when desc and the out pointer
\* lie in guest memory, desc.dwSize is valid and the heap has room.
C10_CreateSurface ==
    [][ /\ ( InShim("IDirectDraw7::CreateSurface") /\ pc' = "ret"
             => LET desc == call.args[2]
                    d == DDSURFACEDESC2
                    flags == RdU32(mem, desc + d.dwFlags)
                    primary == /\ Contains(flags, DDSD.CAPS)
                               /\ Contains(RdU32(mem, desc + d.ddsCaps),
                                           DDSCAPS.PRIMARYSURFACE)
                IN  /\ RdU32(mem, desc + d.dwSize) = d.size
                    /\ \E x \in DOMAIN surfaces' \ DOMAIN surfaces :
                          /\ DOMAIN surfaces' = DOMAIN surfaces \cup {x}
                          /\ \A s \in DOMAIN surfaces : surfaces'[s] = surfaces[s]
                          /\ surfaces'[x].palette = 0
                          /\ surfaces'[x].pixels = 0
                          /\ RdU32(mem', call.args[3]) = x
                          /\ Len(host_surfaces') = Len(host_surfaces) + 1
                          /\ surfaces'[x].host = Len(host_surfaces')
                          /\ host_surfaces'[surfaces'[x].host].opts.primary = primary
                          /\ IF primary
                             THEN /\ surfaces'[x].width = dd_width
                                  /\ surfaces'[x].height = dd_height
                             ELSE /\ Contains(flags, DDSD.WIDTH) =>
                                       surfaces'[x].width = RdU32(mem, desc + d.dwWidth)
                                  /\ Contains(flags, DDSD.HEIGHT) =>
                                       surfaces'[x].height = RdU32(mem, desc + d.dwHeight)
                    /\ eax' = DD_OK )
        /\ ( /\ InShim("IDirectDraw7::CreateSurface")
             /\ call.args[2] # 0 /\ InMem(call.args[2], DDSURFACEDESC2.size)
             /\ RdU32(mem, call.args[2] + DDSURFACEDESC2.dwSize) = DDSURFACEDESC2.size
             /\ call.args[3] # 0 /\ InMem(call.args[3], 4)
             /\ HeapAlloc(heap, 4).kind = "ok"
             => pc' = "ret" )
        /\ ( InShim("IDirectDraw7::SetDisplayMode") /\ pc' = "ret"
             => /\ dd_width' = call.args[2]
                /\ dd_height' = call.args[3] )
        /\ ( ~InShim("IDirectDraw7::SetDisplayMode")
             => dd_width' = dd_width /\ dd_height' = dd_height )
        /\ ( ~InShim("IDirectDraw7::CreateSurface")
             => /\ DOMAIN surfaces' = DOMAIN surfaces
                /\ \A s \in DOMAIN surfaces :
                      /\ surfaces'[s].width = surfaces[s].width
                      /\ surfaces'[s].height = surfaces[s].height ) ]_vars

\* a primary surface made at 640x480 from a desc that says 2x2, next to one
\* made at 320x200 before the display mode changed
C10_Witness ==
    /\ pc = "ret" /\ call.sym = "IDirectDraw7::CreateSurface"
    /\ call.args[2] = Guest.desc_primary
    /\ dd_width = 640 /\ dd_height = 480
    /\ \E x \in DOMAIN surfaces : \E y \in DOMAIN surfaces :
          /\ RdU32(mem, call.args[3]) = x
          /\ surfaces[x].width = 640 /\ surfaces[x].height = 480
          /\ surfaces[x].palette = 0 /\ surfaces[x].pixels = 0
          /\ host_surfaces[surfaces[x].host].opts.primary
          /\ surfaces[y].width = 320 /\ surfaces[y].height = 200

\* C11: a BltFast(this, x, y, lpSurf, rect, flags) that returns had two
\* different surfaces this and lpSurf, has made exactly one host call,
\* this.host.bit_blt(x, y, lpSurf.host, rect.left, rect.top,
\* rect.right - rect.left, rect.bottom - rect.top) (the differences in 32
\* bits; exact in a build that checks overflow), has changed no surface record
\* and returns DD_OK; it does return when the two surfaces exist and differ,
\* rect lies in guest memory and rect.right >= rect.left and
\* rect.bottom >= rect.top; and when this = lpSurf the call aborts with no
\* host call made.
C11_BltFast ==
    [][ InShim("IDirectDrawSurface7::BltFast")
        => LET this == call.args[1]
               lpSurf == call.args[4]
               rect == call.args[5]
               left == RdU32(mem, rect + RECT.left)
               top == RdU32(mem, rect + RECT.top)
               right == RdU32(mem, rect + RECT.right)
               bottom == RdU32(mem, rect + RECT.bottom)
           IN  /\ surfaces' = surfaces
               /\ pc' = "ret"
                  => /\ this \in DOMAIN surfaces /\ lpSurf \in DOMAIN surfaces
                     /\ this # lpSurf
                     /\ host_log' = << [op |-> "bit_blt", host |-> surfaces[this].host,
                                        x |-> call.args[2], y |-> call.args[3],
                                        src |-> surfaces[lpSurf].host,
                                        sx |-> left, sy |-> top,
                                        w |-> (right - left) % WordMod,
                                        h |-> (bottom - top) % WordMod] >>
                     /\ overflow_checks => right >= left /\ bottom >= top
                     /\ eax' = DD_OK
               /\ ( /\ this \in DOMAIN surfaces /\ lpSurf \in DOMAIN surfaces
                    /\ this # lpSurf
                    /\ rect # 0 /\ InMem(rect, RECT.size)
                    /\ right >= left /\ bottom >= top
                    => pc' = "ret" )
               /\ this = lpSurf => pc' = "abort" /\ host_log' = host_log ]_vars

\* rect (0,0,8,8) at (4,4): the host sees a blit of w=8, h=8 from (0,0) to (4,4)
C11_Witness ==
    /\ pc = "ret" /\ call.sym = "IDirectDrawSurface7::BltFast"
    /\ call.args[1] \in DOMAIN surfaces /\ call.args[4] \in DOMAIN surfaces
    /\ eax = DD_OK
    /\ host_log = << [op |-> "bit_blt", host |-> surfaces[call.args[1]].host,
                      x |-> 4, y |-> 4, src |-> surfaces[call.args[4]].host,
                      sx |-> 0, sy |-> 0, w |-> 8, h |-> 8] >>

\* a BltFast of a surface onto itself has aborted
C11_WitnessSame ==
    /\ pc = "abort" /\ call.sym = "IDirectDrawSurface7::BltFast"
    /\ call.args[1] \in DOMAIN surfaces /\ call.args[1] = call.args[4]

---------------------------------------------------------------------------
(* The stdout scenario (SpecK32) *)

\* the scenario's call: WriteFile(STDOUT_HFILE, addr, 5, pWritten, 0), pushed
\* last argument first, with "hello" at addr
C12_Scenario ==
    /\ InShim("kernel32.dll!WriteFile")
    /\ call.args = <<STDOUT_HFILE, HelloAddr, 5, WrittenAddr, 0>>
    /\ SubSeq(stack, 1, 5) = call.args
    /\ Slice(mem, HelloAddr, 5) = Hello

\* what the scenario's call does whatever the host writer answers: it returns,
\* the host writer has observed exactly "hello", once, and eax is 1
C12_Observed ==
    /\ pc' = "ret"
    /\ host_written' = Append(host_written, host_written'[Len(host_written')])
    /\ host_written'[Len(host_written')].buf = Hello
    /\ eax' = 1

---------------------------------------------------------------------------
(* GetSurfaceDesc (SpecSurface) *)

\* C13: a GetSurfaceDesc(this, desc) with a valid desc.dwSize that returns
\* has written S.width to desc.dwWidth exactly when desc.dwFlags has WIDTH and
\* S.height to desc.dwHeight exactly when it has HEIGHT, has left desc.dwFlags
\* and the surface records unchanged, returns DDERR_GENERIC when desc.dwFlags
\* has a bit other than WIDTH and HEIGHT, and does not return DDERR_GENERIC
\* when desc.dwFlags has only WIDTH and/or HEIGHT.
C13_GetSurfaceDesc ==
    [][ InShim("IDirectDrawSurface7::GetSurfaceDesc") /\ pc' = "ret"
        => LET S == surfaces[call.args[1]]
               desc == call.args[2]
               d == DDSURFACEDESC2
               flags == RdU32(mem, desc + d.dwFlags)
               others == Remove(Remove(flags, DDSD.WIDTH), DDSD.HEIGHT)
           IN  /\ RdU32(mem, desc + d.dwSize) = d.size
               /\ RdU32(mem', desc + d.dwWidth)
                     = IF Contains(flags, DDSD.WIDTH) THEN S.width
                       ELSE RdU32(mem, desc + d.dwWidth)
               /\ RdU32(mem', desc + d.dwHeight)
                     = IF Contains(flags, DDSD.HEIGHT) THEN S.height
                       ELSE RdU32(mem, desc + d.dwHeight)
               /\ RdU32(mem', desc + d.dwFlags) = flags
               /\ surfaces' = surfaces
               /\ others # 0 => eax' = DDERR_GENERIC
               /\ others = 0 => eax' # DDERR_GENERIC ]_vars

---------------------------------------------------------------------------
(* The display mode and the window (SpecMode) *)

\* the set_size calls a shim call has made so far
SetSizeCalls == SelectSeq(host_log, LAMBDA e : e.op = "set_size")

---------------------------------------------------------------------------
(* The surface objects in guest memory (SpecObject) *)

\* the guest memory a shim call writes through the pointers the guest passed
\* it: an out pointer's word, a rect, a desc
GuestWrites ==
    LET R(a, n) == IF a = 0 THEN {} ELSE a..(a + n - 1)
    IN  IF pc # "shim" THEN {}
        ELSE CASE call.sym \in {"IDirectDraw7::CreateSurface",
                               "IDirectDrawSurface7::GetAttachedSurface"} ->
                      R(call.args[3], 4)
               [] call.sym = "IDirectDrawSurface7::GetDC" -> R(call.args[2], 4)
               [] call.sym = "IDirectDrawSurface7::GetSurfaceDesc" ->
                      R(call.args[2], DDSURFACEDESC2.size)
               [] call.sym = "IDirectDrawSurface7::Lock" ->
                      R(call.args[3], DDSURFACEDESC2.size)
               [] call.sym = "IDirectDrawSurface7::Unlock" ->
                      R(call.args[2], RECT.size)
               [] OTHER -> {}

\* the 4 bytes at O hold the address of the IDirectDrawSurface7 vtable
HoldsVtable(m, O) == RdU32(m, O) = DDraw.vtable_IDirectDrawSurface7

\* C15 (as stated): for every surface object address O in the surfaces table
\* the 4 bytes of guest memory at O hold the address of the
\* IDirectDrawSurface7 vtable; no shim operation overwrites them.
C15_VtableAtObject ==
    \A O \in DOMAIN surfaces : HoldsVtable(mem, O)

\* C15 (amended): surface objects are made by CreateSurface and
\* GetAttachedSurface only; a new object O holds the address of the
\* IDirectDrawSurface7 vtable in its 4 bytes, and a step leaves that word of
\* an existing O as it is, unless the step is a shim call that the guest
\* passed a pointer (the out pointer of CreateSurface, GetAttachedSurface or
\* GetDC, the desc of Lock or GetSurfaceDesc, the rect of Unlock) whose
\* record overlaps the 4 bytes at O.
C15_VtableKept ==
    [][ \A O \in DOMAIN surfaces' :
          /\ O \notin DOMAIN surfaces
                => /\ pc = "shim"
                   /\ call.sym \in {"IDirectDraw7::CreateSurface",
                                    "IDirectDrawSurface7::GetAttachedSurface"}
          /\ ( /\ O \in DOMAIN surfaces => HoldsVtable(mem, O)
               /\ (O..(O + 3)) \cap GuestWrites = {} )
             => HoldsVtable(mem', O) ]_vars

\* two surface objects, one from CreateSurface and one from
\* GetAttachedSurface, hold the vtable's address after a Lock and an Unlock
\* that were given a rect of the guest's own
C15_Witness ==
    /\ pc = "ret" /\ call.sym = "IDirectDrawSurface7::Unlock"
    /\ call.args[2] = Guest.rect
    /\ Cardinality(DOMAIN surfaces) = 2
    /\ \E h \in DOMAIN host_surfaces : host_surfaces[h].kind = "attached"
    /\ \A O \in DOMAIN surfaces : HoldsVtable(mem, O) /\ surfaces[O].pixels # 0
    /\ RdU32(mem, Guest.rect + RECT.right) = 4

---------------------------------------------------------------------------
(* GetAttachedSurface (SpecSurface) *)

\* C16: a GetAttachedSurface(this, caps, outAddr) that returns has made one
\* new guest object, at an address that is not this and not a surface yet,
\* has inserted for it a record whose width, height, palette and pixels are
\* those of this at the call and whose host is this.host.get_attached(), has
\* written the new address at outAddr, returns DD_OK and has left the record
\* of this, and of every other surface, unchanged; it does return when this
\* is a surface, outAddr lies in guest memory and the heap has room.
C16_GetAttachedSurface ==
    [][ InShim("IDirectDrawSurface7::GetAttachedSurface")
        => LET this == call.args[1]
               outAddr == call.args[3]
           IN  /\ pc' = "ret"
                  => \E x \in DOMAIN surfaces' \ DOMAIN surfaces :
                        /\ x # this
                        /\ DOMAIN surfaces' = DOMAIN surfaces \cup {x}
                        /\ \A s \in DOMAIN surfaces : surfaces'[s] = surfaces[s]
                        /\ surfaces'[x].width = surfaces[this].width
                        /\ surfaces'[x].height = surfaces[this].height
                        /\ surfaces'[x].palette = surfaces[this].palette
                        /\ surfaces'[x].pixels = surfaces[this].pixels
                        /\ HostCalls' = << [op |-> "get_attached",
                                            of |-> surfaces[this].host,
                                            host |-> surfaces'[x].host] >>
                        /\ surfaces'[x].host \notin DOMAIN host_surfaces
                        /\ host_surfaces'[surfaces'[x].host]
                              = [kind |-> "attached", of |-> surfaces[this].host]
                        /\ \E b \in heap'.live \ heap.live : b.addr = x
                        /\ RdU32(mem', outAddr) = x
                        /\ eax' = DD_OK
               /\ ( /\ this \in DOMAIN surfaces
                    /\ InMem(outAddr, 4)
                    /\ HeapAlloc(heap, 4).kind = "ok"
                    => pc' = "ret" ) ]_vars

\* the attached surface of a 4x1 surface that has been locked: the new record
\* has the same pixels
C16_Witness ==
    /\ pc = "ret" /\ call.sym = "IDirectDrawSurface7::GetAttachedSurface"
    /\ call.args[1] \in DOMAIN surfaces
    /\ surfaces[call.args[1]].pixels # 0
    /\ surfaces[call.args[1]].width = 4 /\ surfaces[call.args[1]].height = 1
    /\ \E x \in DOMAIN surfaces \ {call.args[1]} :
          /\ RdU32(mem, call.args[3]) = x
          /\ surfaces[x].pixels = surfaces[call.args[1]].pixels
          /\ surfaces[x].width = 4 /\ surfaces[x].height = 1
          /\ surfaces[x].host # surfaces[call.args[1]].host
          /\ host_surfaces[surfaces[x].host].kind = "attached"

---------------------------------------------------------------------------
(* More claims about the mapping list (SpecAlloc) *)

\* C17: in every state reached from State::new() by add_mapping and alloc the
\* first mapping of the list is the null guard, with addr 0 and size
\* NULL_POINTER_REGION_SIZE (so no operation removes or alters it), and no
\* addr alloc returned, for any size, is below NULL_POINTER_REGION_SIZE.
C17_NullGuard ==
    /\ Len(mappings) >= 1
    /\ mappings[1] = Mapping(0, NULL_POINTER_REGION_SIZE, "avoid null pointers")
    /\ \A a \in allocated : a >= NULL_POINTER_REGION_SIZE

\* [m.addr, m.addr + m.size) meets the range of a mapping of the list, m.addr
\* is the addr of one, or m.addr + m.size exceeds 2^32
Intersects(ms, m) ==
    \/ \E i \in 1..Len(ms) : ~RangesDisjoint(ms[i], m) \/ ms[i].addr = m.addr
    \/ m.addr + m.size > WordMod

\* C18: add_mapping(m) aborts and leaves the list unchanged whenever m's range
\* intersects that of an existing mapping (m.addr equal to an existing addr
\* and m.addr + m.size above 2^32 included); otherwise it inserts m at the
\* one index that keeps the list sorted by addr and changes no other element.
C18_AddMapping ==
    [][ \A m \in LoaderMappings :
          add_mapping(m)
          => IF Intersects(mappings, m)
             THEN pc' = "abort" /\ mappings' = mappings
             ELSE /\ pc' = "guest"
                  /\ \E pos \in 1..(Len(mappings) + 1) :
                        /\ mappings' = InsertAt(mappings, pos, m)
                        /\ \A i \in 1..(pos - 1) : mappings[i].addr < m.addr
                        /\ \A i \in pos..Len(mappings) : mappings[i].addr > m.addr ]_vars

\* the end of the mapping before gap i rounded up to 0x1000 (0 for the gap in
\* front of the first mapping), and the length of gap i: up to the addr of
\* mapping i, and up to 2^32 for the space above the last mapping
GapStart(ms, i) ==
    IF i = 1 THEN 0
    ELSE ((ms[i - 1].addr + ms[i - 1].size + (PAGE - 1)) \div PAGE) * PAGE
GapLength(ms, i) ==
    (IF i <= Len(ms) THEN ms[i].addr ELSE WordMod) - GapStart(ms, i)

\* C19: alloc(size, desc) puts the new mapping in the lowest gap whose length
\* is strictly greater than size, with addr the rounded-up end before the gap
\* and the size as requested, leaves the existing mappings unchanged, and
\* aborts only when no gap, the space above the last mapping included, is
\* large enough.
C19_AllocFirstFit ==
    [][ \A size \in AllocSizes :
          alloc(size)
          => LET fit == {i \in 1..(Len(mappings) + 1) : GapLength(mappings, i) > size}
             IN  IF fit = {}
                 THEN pc' = "abort" /\ mappings' = mappings
                 ELSE LET i == CHOOSE i \in fit : \A j \in fit : i <= j
                      IN  /\ pc' = "guest"
                          /\ mappings' = InsertAt(mappings, i,
                                            Mapping(GapStart(mappings, i), size, "alloc")) ]_vars

---------------------------------------------------------------------------
(* Unsupported arguments (SpecK32) *)

\* C20: VirtualAlloc with lpAddress # 0 or flAllocationType # 0x1000 aborts
\* with no mapping added and eax not written; WriteFile with
\* hFile # STDOUT_HFILE or lpOverlapped # 0 aborts with nothing given to the
\* host writer and nothing stored at lpNumberOfBytesWritten (guest memory is
\* unchanged); and an aborted process takes no further step.
C20_UnsupportedIsFatal ==
    [][ /\ ( /\ InShim("kernel32.dll!VirtualAlloc")
             /\ (call.args[1] # 0 \/ call.args[3] # MEM_COMMIT)
             => /\ pc' = "abort"
                /\ mappings' = mappings /\ allocated' = allocated
                /\ eax' = eax )
        /\ ( /\ InShim("kernel32.dll!WriteFile")
             /\ (call.args[1] # STDOUT_HFILE \/ call.args[5] # 0)
             => /\ pc' = "abort"
                /\ host_written' = host_written
                /\ mem' = mem
                /\ eax' = eax )
        /\ pc # "abort" ]_vars

\* WriteFile with a file handle that is not stdout has aborted: the host
\* writer has seen nothing and the word at lpNumberOfBytesWritten is untouched
C20_Witness ==
    /\ pc = "abort" /\ call.sym = "kernel32.dll!WriteFile"
    /\ call.args[1] # STDOUT_HFILE
    /\ host_written = <<>>
    /\ mem = GuestImage
    /\ eax = 0

\* VirtualAlloc with flAllocationType = 0x2000 has aborted: no mapping added
C20_WitnessVirtualAlloc ==
    /\ pc = "abort" /\ call.sym = "kernel32.dll!VirtualAlloc"
    /\ call.args[1] = 0 /\ call.args[3] # MEM_COMMIT
    /\ mappings = NewMappings
    /\ eax = 0

---------------------------------------------------------------------------
(* Release (SpecRelease) *)

\* C21: Release(this) on IDirectDraw7 or IDirectDrawSurface7 returns 0 and
\* changes nothing: the surfaces and palettes tables with every surface
\* record, the heap, guest memory and all other ddraw and kernel32 state are
\* the same after the call as before, no host call is made, and the guest's
\* stack is its stack before the call less the one argument; so a Lock or
\* Unlock of the released surface afterwards starts from the state it would
\* have started from without the Release.  No step of any operation removes
\* an entry from the surfaces or palettes table.
C21_ReleaseIsNoOp ==
    [][ /\ ( InShim("IDirectDraw7::Release") \/ InShim("IDirectDrawSurface7::Release")
             => /\ pc' = "ret"
                /\ eax' = 0
                /\ surfaces' = surfaces /\ palettes' = palettes
                /\ heap' = heap /\ mem' = mem
                /\ host_log' = <<>> /\ host_surfaces' = host_surfaces
                /\ stack' = AfterPop(stack, 1)
                /\ UNCHANGED <<k32state, ddcore, frames>> )
        /\ DOMAIN surfaces \subseteq DOMAIN surfaces'
        /\ DOMAIN palettes \subseteq DOMAIN palettes' ]_vars

\* Release of a surface that was locked and has a palette set has returned 0:
\* the record is still in the table with its pixels, its palette and its heap
\* block
C21_Witness ==
    /\ pc = "ret" /\ call.sym = "IDirectDrawSurface7::Release"
    /\ eax = 0
    /\ host_log = <<>>
    /\ call.args[1] \in DOMAIN surfaces
    /\ surfaces[call.args[1]].pixels # 0
    /\ surfaces[call.args[1]].palette \in DOMAIN palettes
    /\ \E c \in heap.live : c.addr = surfaces[call.args[1]].pixels

\* Release of the IDirectDraw7 object has returned 0 with both surfaces and
\* the palette still in their tables
C21_WitnessDirectDraw ==
    /\ pc = "ret" /\ call.sym = "IDirectDraw7::Release"
    /\ eax = 0
    /\ host_log = <<>>
    /\ Cardinality(DOMAIN surfaces) = MaxSurfaces
    /\ DOMAIN palettes # {}

---------------------------------------------------------------------------
(* The arithmetic of alloc (SpecAlloc) *)

\* The loop of alloc from index pos on with the running value of end: every
\* difference mapping.addr - end it computes is >= 0 and every sum
\* mapping.addr + mapping.size + (0x1000 - 1) it computes is below 2^32.
RECURSIVE ScanInRange(_, _, _, _)
ScanInRange(ms, size, pos, end) ==
    IF pos > Len(ms) THEN TRUE
    ELSE LET m    == ms[pos]
             diff == m.addr - end
             nxt  == RoundedEnd(m)
         IN  /\ ~Ovf(diff)
             /\ \/ diff > size
                \/ ~nxt.ovf /\ ScanInRange(ms, size, pos + 1, nxt.val)

\* C22: for every mapping list reached from State::new() by add_mapping and
\* alloc calls that did not abort, the arithmetic of alloc stays in range for
\* every size: mapping.addr - end never goes below 0 and
\* mapping.addr + mapping.size + 0xFFF never exceeds 2^32 - 1.
C22_AllocArithmeticInRange ==
    pc # "abort" => \A size \in AllocSizes : ScanInRange(mappings, size, 1, 0)

====
